---- MODULE Spec2Model ----
(***************************************************************************)
(* Model of the inventory-reminder bot (src/index.js): the JSON document   *)
(* on disk, the global in-memory `db` that every reloadDb() replaces by a  *)
(* freshly parsed object, the 30-second scheduler tick with its await      *)
(* points, and the button / message handlers that run while a tick is      *)
(* suspended at a send.                                                    *)
(*                                                                         *)
(* Time is counted in scheduler periods (TickSeconds seconds each).        *)
(* A reference the tick holds into the document (`pending`, the reminders  *)
(* array, the inventory array) is a value plus a flag telling whether it   *)
(* is still the same object as the one reachable from the global `db`.     *)
(*                                                                         *)
(* The tick is one async function: it runs without interruption up to the  *)
(* next awaited bot.api.sendMessage, where handlers may run.  TickStart    *)
(* and TickResume each execute one such stretch of code.                   *)
(*                                                                         *)
(* Scope: pendingConfirmations of one business date; schedules only in    *)
(* the documents of SpecSched; staff only in those of SpecDaily and of the *)
(* handlers.  The business date of the ticks is neither a payday nor seven *)
(* days before one, so that the monthly payday loop sends nothing.  Sends  *)
(* fail and db.json is read-only only in SpecFail, SpecDaily and           *)
(* SpecFlowFail.  One tick runs at a time, except in SpecOverlap, where a   *)
(* send may last longer than the period of the timer: `tick` is then the    *)
(* oldest tick in progress and `parked` holds the ones started after it.    *)
(* The audit trail is write-only; its entries are kept by the handlers of   *)
(* the interactive flows only.                                              *)
(***************************************************************************)
EXTENDS Integers, Sequences, FiniteSets, TLC

VARIABLES now, lastTick, nops, disk, db, tick, sent, hist, env, parked

vars == <<now, lastTick, nops, disk, db, tick, sent, hist, env, parked>>

----------------------------------------------------------------------------
(* Program constants *)
TickSeconds == 30
UnitsPerMinute == 60 \div TickSeconds
Minutes(n) == n * UnitsPerMinute
DayUnits == 24 * 60 * UnitsPerMinute
DefaultWarnDays == 4
DefaultCriticalDays == 2
\* settings.vegConfirm.followupMinutes1 / followupMinutes2 as loadDbSync defaults them
DefaultFollowups == <<30, 60>>
\* a document configured with short follow-up delays
ShortFollowups == <<1, 2>>
\* settings.attendancePromptTime "12:00" and endOfDayPaymentCheck "00:05" as
\* minutes of the day; lastSent has no attendance_prompt / paycheck_eod key
DefaultAttTime == 12 * 60
\* settings.heartbeat.thresholdMinutes as loadDbSync defaults it
DefaultThreshold == 10
DefaultEodTime == 5
NoMarks == [att |-> {}, eod |-> {}]

(* Encodings *)
Null == 0 - 1
All == 0

(* Bounds *)
MaxTime == 6
MaxRegularTime == 186
MaxPressTime == 2
MaxOps == 2
CountCap == 2
PartnerIds == {1, 2}

Min(a, b) == IF a < b THEN a ELSE b
Range(f) == {f[i] : i \in DOMAIN f}

----------------------------------------------------------------------------
(* Document entities *)
Absent == [status |-> "absent", lastUpdated |-> 0, nextCheck |-> Null]
PendingEntry(t) == [status |-> "pending", lastUpdated |-> t, nextCheck |-> Null]

\* the messages: the vegetable check prompt, a schedule's message, the
\* re-prompt, the soft reminder, the URGENT escalation, a reminder, the
\* low-stock and the critical alert, the attendance prompt and the
\* end-of-day payment check about a member of staff, and the OFFLINE and
\* Internet Restored alerts about a device (src/unnamed/part_000)
Kinds == {"vegcheck", "sched", "prompt", "soft", "urgent", "reminder", "low", "critical",
          "attendance", "payment", "offline", "restored"}
NoSent == [k \in Kinds |-> [s \in 1..2 |-> [p \in PartnerIds |-> 0]]]

\* schedule ids; lastSent is keyed by `${s.id}__${p.id}`
SchedIds == {"vegetables", "opening"}
NoLastSent == [s \in SchedIds |-> [p \in PartnerIds |-> Null]]

IdleTick == [pc |-> "idle", partners |-> <<>>, schedules |-> <<>>, si |-> 0, pi |-> 0,
             vleft |-> <<>>, vcur |-> 0, vexisting |-> FALSE,
             pending |-> [p \in PartnerIds |-> Absent], pendLive |-> FALSE,
             keys |-> <<>>, pid |-> 0, left |-> <<>>,
             remNow |-> 0, rems |-> <<>>, remsLive |-> FALSE, ri |-> 0,
             items |-> <<>>, itemsLive |-> FALSE, ii |-> 0,
             bizNow |-> 0, due |-> FALSE, sleft |-> <<>>, scur |-> 0,
             hb |-> <<>>, dleft |-> <<>>, dev |-> 0,
             threw |-> FALSE]

\* the environment: the chats the transport cannot deliver to, whether
\* db.json can be written, and HEARTBEAT_SECRET (line 17; "" when not set)
NoFaults == [down |-> {}, diskOK |-> TRUE, secret |-> ""]


\* chat ids: 1 and 2 are partners of the initial documents, 3 is not
UserIds == {1, 2, 3}

\* message texts: an item id, the same in capitals, numbers, the text of a
\* message without text (a photo), a repeat keyword, and "d1", a well-formed
\* "YYYY-MM-DD HH:mm" date-time
Texts == {"a", "A", "2", "-1", "", "once", "d1"}

\* Number(text) and isNaN(Number(text)): Number("") is 0
AdminPassword == "7201"
PasswordValue == 7201
NumericTexts == {"2", "-1", "", AdminPassword}
isNaN(text) == text \notin NumericTexts
Number(text) ==
  CASE text = "2" -> 2 [] text = "-1" -> 0 - 1 [] text = AdminPassword -> PasswordValue
    [] OTHER -> 0

\* line 376: text.replace(/\s+/g, "_").toLowerCase(); the date-time holds a
\* space
Lower(text) == CASE text = "A" -> "a" [] OTHER -> text
ItemId(text) == IF text = "d1" THEN "d1_" ELSE Lower(text)

\* dayjs.tz(text, "YYYY-MM-DD HH:mm", "Asia/Kolkata"): the instant, or Null
\* when !parsed.isValid(); what dayjs makes of a bare number is left open
DateOfD1 == 3
DateParse(text) ==
  CASE text = "d1" -> {DateOfD1}
    [] text \in {"2", "-1"} -> {Null, 0}
    [] OTHER -> {Null}

\* lines 396-399: me, all, or a chat id; NoChat is a text that is no chat id
NoChat == 0 - 2
TargetOf(u, text) ==
  CASE Lower(text) = "me" -> u
    [] Lower(text) = "all" -> All
    [] text = "2" -> 2
    [] OTHER -> NoChat

NoTemp == [id |-> "", num |-> 0, target |-> NoChat, when |-> 0, staffId |-> 0]
NoSession == [action |-> "none", step |-> 0, temp |-> NoTemp]
Session(action, step, temp) == [action |-> action, step |-> step, temp |-> temp]


\* an inventory item and a reminder as the flows create them
Item(stock, usage) ==
  [stock |-> stock, dailyUsage |-> usage, warnDays |-> 4, criticalDays |-> 2,
   warned |-> FALSE, critical |-> FALSE]
Reminder(id, target, when, repeat) ==
  [id |-> id, target |-> target, when |-> when, repeat |-> repeat, done |-> FALSE]

\* staff.attendance[today]: missing, or { in, out, status }
NoAtt == [made |-> FALSE, in |-> Null, out |-> Null, status |-> "none"]

\* a staff member; upsertStaff creates them paid daily, amount 0, with no
\* attendance
Staff(id, salaryType) ==
  [id |-> id, salaryType |-> salaryType, salaryAmount |-> 0, att |-> NoAtt]

\* monitored devices and their heartbeat record
DeviceIds == {"pos", "cam"}
NoBeat == [lastSeen |-> Null, status |-> "none"]

\* the last handler that ran, for the properties: its kind, user, command
\* (or device) and argument, when it ran, whether the user was an owner or
\* admin and had a session, whether the text failed the step's validation,
\* the reply, whether a rejected reply escaped the handler, whether db.json is
\* as before, and whether the handler changed the document in memory
NoLast ==
  [kind |-> "none", user |-> 0, cmd |-> "", arg |-> "", at |-> 0, admin |-> FALSE,
   had |-> FALSE, invalid |-> FALSE, reply |-> "none", escaped |-> FALSE, same |-> TRUE,
   wrote |-> FALSE, frame |-> TRUE]

(* What the properties need to know about the run of the tick; the        *)
(* program does not read it.                                               *)
(*   vegSeen      partners examined by the last sendVegConfirmForDate      *)
(*   vegExisting  the entry each of them had when examined                 *)
(*   vegAfter     the entry each of them had when the loop moved on        *)
(*   vegTo        partners the last sendVegConfirmForDate sent a prompt    *)
(*   vegWrote     partners whose entry it wrote                            *)
(*   lastDay      per (schedule, partner): the partner's local calendar    *)
(*                day of the last scheduled message                        *)
(*   dupl         (schedule, partner) pairs sent twice in one local day    *)
(*   early        (schedule, partner) pairs sent again less than the       *)
(*                schedule's intervalDays local days after the last send   *)
(*   remAt, remSnap   `now` and db.reminders at the start of step 3        *)
(*   remSent      per reminder and recipient: messages sent by this tick   *)
(*   invSnap      db.inventory at the start of step 6                      *)
(*   lowSent, critSent   items whose alert this tick started to broadcast  *)
(*   lowDone, critDone   items whose broadcast this tick has completed     *)
(*   steps        the steps of the tick (3: reminders, 6: inventory) this   *)
(*                tick has reached                                          *)
(*   attSent, eodSent   staff whose attendance prompt / payment check this  *)
(*                tick started to broadcast                                 *)
(*   attTicks, eodTicks   per business date: how many ticks have sent the   *)
(*                attendance prompt / the payment check                     *)
(*   reloaded     reloadDb() has been called since the flag was lowered      *)
(*   offNow       devices whose OFFLINE broadcast has begun and that have    *)
(*                not reported since                                         *)
(*   offRepeat    devices whose OFFLINE broadcast began while in offNow      *)
(*   recovered    devices that have reported while in offNow                 *)
NoDay == 0 - 9
Days == {0, 1}
NoObs == [vegSeen |-> {}, vegExisting |-> [p \in PartnerIds |-> Absent],
          vegAfter |-> [p \in PartnerIds |-> Absent], vegTo |-> {}, vegWrote |-> {},
          lastDay |-> [s \in SchedIds |-> [p \in PartnerIds |-> NoDay]], dupl |-> {},
          early |-> {},
          remAt |-> 0, remSnap |-> <<>>,
          remSent |-> [i \in 1..2 |-> [p \in PartnerIds |-> 0]],
          invSnap |-> <<>>, lowSent |-> {}, critSent |-> {}, lowDone |-> {}, critDone |-> {},
          steps |-> {}, attSent |-> {}, eodSent |-> {}, attTicks |-> [d \in Days |-> 0], eodTicks |-> [d \in Days |-> 0],
          reloaded |-> FALSE, offNow |-> {}, offRepeat |-> {}, recovered |-> {}]

(* The machine state the tick's code works on: the file, the global db,    *)
(* the tick's locals and the messages handed to the transport.             *)
Machine ==
  [disk |-> disk, db |-> db, tick |-> tick, sent |-> sent, obs |-> hist.obs, env |-> env]

\* dayjs().tz(tz): time 0 is 00:00 in Asia/Kolkata, and tz is the offset of
\* the partner's timezone from Asia/Kolkata.  format("YYYY-MM-DD") is the
\* local calendar day, hour() * 60 + minute() the local minute of the day.
LocalDay(t, tz) == (t + tz) \div DayUnits
LocalMinute(t, tz) == ((t + tz) % DayUnits) \div UnitsPerMinute

----------------------------------------------------------------------------
(* Persistence helpers *)

\* variant: the file is written although the write is reported as failed
writeDbSync_always(m) == [m EXCEPT !.disk = m.db]
\* writeDbSync(db): the file gets the content of the global db; when
\* fs.writeFileSync throws, the error is logged and the file is as it was
writeDbSync(m) == IF m.env.diskOK THEN [m EXCEPT !.disk = m.db] ELSE m

\* variant: the objects reachable from the previous db stay the ones of db
reloadDb_aliased(m) == [m EXCEPT !.db = m.disk, !.obs.reloaded = TRUE]
\* reloadDb(): db becomes a freshly parsed object; every reference taken
\* from the previous object stops aliasing db
reloadDb(m) == [m EXCEPT !.db = m.disk,
                         !.obs.reloaded = TRUE,
                         !.tick.pendLive = FALSE,
                         !.tick.remsLive = FALSE,
                         !.tick.itemsLive = FALSE]

\* logAudit: reloadDb(); push an audit entry; writeDbSync(db).  The audit
\* trail is never read back, only its reload / write is kept.
logAudit(m) == writeDbSync(reloadDb(m))

\* findPartner(userId): reloadDb(), then look the id up in db.partners
findPartner(m) == reloadDb(m)
IsPartner(doc, pid) == pid \in Range(doc.partners)

\* bot.api.sendMessage: the message is with the recipient, or the awaited
\* call throws when the recipient's chat cannot be reached
Send(m, kind, subj, to) ==
  IF to \in m.env.down
    THEN [m EXCEPT !.tick.threw = TRUE]
    ELSE [m EXCEPT !.sent[kind][subj][to] = Min(@ + 1, CountCap)]

Suspend(m, pc) == [m EXCEPT !.tick.pc = pc]

\* an exception reaches the tick's outer catch: the rest of the tick is skipped
Abort(m) == [m EXCEPT !.tick = IdleTick]

----------------------------------------------------------------------------
(* Scheduler tick, step 2: veg confirmations followups & escalate *)

\* delete pending[date][pid]: acts on the object the tick holds, which is
\* db.pendingConfirmations only while no reloadDb() has replaced db
DeletePending(m, pid) ==
  LET p2 == [m.tick.pending EXCEPT ![pid] = Absent]
  IN IF m.tick.pendLive
       THEN [m EXCEPT !.tick.pending = p2, !.db.pend = p2]
       ELSE [m EXCEPT !.tick.pending = p2]

\* db.pendingConfirmations[date][pid].nextCheck = v: acts on the global db
SetNextCheck(m, pid, v) ==
  LET d2 == [m.db.pend EXCEPT ![pid].nextCheck = v]
  IN IF m.tick.pendLive
       THEN [m EXCEPT !.db.pend = d2, !.tick.pending = d2]
       ELSE [m EXCEPT !.db.pend = d2]

\* variant: the reminders' one-minute look-ahead applied to nextCheck
IsBefore_lookahead(a, b) == a < b + Minutes(1)

\* dayjs(rec.nextCheck).isBefore(dayjs())
IsBefore(a, b) == a < b

\* variant: the difference taken in scheduler periods instead of minutes
minutesSince_periods(last) == now - last

\* dayjs().diff(last, "minute"): whole minutes, truncated
minutesSince(last) == (now - last) \div UnitsPerMinute

\* Object.keys(pending[date]): integer-like keys come in ascending order
RECURSIVE SortedKeys(_)
SortedKeys(S) ==
  IF S = {} THEN <<>>
  ELSE LET k == CHOOSE x \in S : \A y \in S : x <= y
       IN <<k>> \o SortedKeys(S \ {k})
ObjectKeys(pend) == SortedKeys({p \in DOMAIN pend : pend[p].status # "absent"})

----------------------------------------------------------------------------
(* Scheduler tick, step 6: inventory checks (warn/critical) *)

\* variant: only a negative dailyUsage gives Infinity
DaysFinite_zeroUsage(item) == item.dailyUsage >= 0

\* calcDaysLeft(item) is Infinity when dailyUsage is missing or <= 0
DaysFinite(item) == item.dailyUsage > 0

\* variant: the threshold itself does not alert
DaysLeftLeq_strict(item, d) == item.stock < d * item.dailyUsage

\* calcDaysLeft(item) <= d, for a finite daysLeft = stock / dailyUsage
\* (the quotient is a real number: compared by cross-multiplication)
DaysLeftLeq(item, d) == item.stock <= d * item.dailyUsage

\* (item.warnDays || 4), (item.criticalDays || 2)
WarnDays(item) == IF item.warnDays = 0 THEN DefaultWarnDays ELSE item.warnDays
CriticalDays(item) == IF item.criticalDays = 0 THEN DefaultCriticalDays ELSE item.criticalDays

LowDue(item) == DaysLeftLeq(item, WarnDays(item)) /\ ~item.warned
CriticalDue(item) == DaysLeftLeq(item, CriticalDays(item)) /\ ~item.critical

\* item._warned = v / item._critical = v: acts on the array element the
\* loop holds, which belongs to db only while db has not been reloaded
SetWarned(m, v) ==
  LET i == m.tick.ii
      a2 == [m.tick.items EXCEPT ![i].warned = v]
  IN IF m.tick.itemsLive
       THEN [m EXCEPT !.tick.items = a2, !.db.inv = a2]
       ELSE [m EXCEPT !.tick.items = a2]
SetCritical(m, v) ==
  LET i == m.tick.ii
      a2 == [m.tick.items EXCEPT ![i].critical = v]
  IN IF m.tick.itemsLive
       THEN [m EXCEPT !.tick.items = a2, !.db.inv = a2]
       ELSE [m EXCEPT !.tick.items = a2]

TickEnd(m) == [m EXCEPT !.tick = IdleTick]

RECURSIVE InvItem(_)

InvNext(m) ==
  LET m1 == [m EXCEPT !.tick.ii = @ + 1]
  IN IF m1.tick.ii > Len(m1.tick.items) THEN TickEnd(m1) ELSE InvItem(m1)

\* lines 659-660: clear the latches when daysLeft is back above the threshold
InvClear(m) ==
  LET it1 == m.tick.items[m.tick.ii]
      m1 == IF ~DaysLeftLeq(it1, WarnDays(it1)) /\ it1.warned
              THEN writeDbSync(SetWarned(m, FALSE)) ELSE m
      it2 == m1.tick.items[m1.tick.ii]
      m2 == IF ~DaysLeftLeq(it2, CriticalDays(it2)) /\ it2.critical
              THEN writeDbSync(SetCritical(m1, FALSE)) ELSE m1
  IN InvNext(m2)

\* line 656-657: critical broadcast, one await per partner, then latch
CriticalBroadcast(m) ==
  IF m.tick.left = <<>>
    THEN InvClear([logAudit(writeDbSync(SetCritical(m, TRUE)))
                     EXCEPT !.obs.critDone = @ \cup {m.tick.ii}])
    ELSE Suspend([Send(m, "critical", m.tick.ii, Head(m.tick.left))
                    EXCEPT !.tick.left = Tail(@),
                           !.obs.critSent = @ \cup {m.tick.ii}], "inv_crit")

InvCritical(m) ==
  IF CriticalDue(m.tick.items[m.tick.ii])
    THEN CriticalBroadcast([m EXCEPT !.tick.left = m.db.partners])
    ELSE InvClear(m)

\* line 651-652: low-stock broadcast, one await per partner, then latch
LowBroadcast(m) ==
  IF m.tick.left = <<>>
    THEN InvCritical([logAudit(writeDbSync(SetWarned(m, TRUE)))
                        EXCEPT !.obs.lowDone = @ \cup {m.tick.ii}])
    ELSE Suspend([Send(m, "low", m.tick.ii, Head(m.tick.left))
                    EXCEPT !.tick.left = Tail(@),
                           !.obs.lowSent = @ \cup {m.tick.ii}], "inv_low")

InvItem(m) ==
  LET item == m.tick.items[m.tick.ii]
  IN IF ~DaysFinite(item) THEN InvNext(m)
     ELSE IF LowDue(item)
       THEN LowBroadcast([m EXCEPT !.tick.left = m.db.partners])
       ELSE InvCritical(m)

\* line 645-646: reloadDb(); for (const item of db.inventory || [])
InvStart(m) ==
  LET m1 == reloadDb(m)
  IN InvNext([m1 EXCEPT !.tick.items = m1.db.inv, !.tick.itemsLive = TRUE,
                        !.tick.ii = 0, !.obs.invSnap = m1.db.inv,
                        !.obs.steps = @ \cup {6}])

----------------------------------------------------------------------------
(* The scheduler tick of src/unnamed/part_000, for documents without       *)
(* schedules, pendingConfirmations and inventory: the heartbeat alerts.    *)

\* Object.keys(db.heartbeats): the devices in the order of their first
\* heartbeat; "pos" reported first
DeviceKeys == <<"pos", "cam">>
DeviceNo(d) == IF d = "pos" THEN 1 ELSE 2

RECURSIVE HbDevice(_)

\* part_000 line 628: after the last device, reloadDb() and the (empty)
\* inventory loop
HbNext(m) == IF m.tick.dleft = <<>> THEN TickEnd(reloadDb(m)) ELSE HbDevice(m)

\* part_000 lines 618-619, 624-625: one await per partner, then logAudit
HbBroadcast(m, kind) ==
  IF m.tick.left = <<>>
    THEN HbNext(logAudit(m))
    ELSE Suspend([Send(m, kind, DeviceNo(m.tick.dev), Head(m.tick.left))
                    EXCEPT !.tick.left = Tail(@)],
                 IF kind = "offline" THEN "hb_down" ELSE "hb_up")

\* what the properties note when an OFFLINE broadcast begins
NoteOffline(m, d) ==
  [m EXCEPT !.obs.offRepeat = IF d \in m.obs.offNow THEN @ \cup {d} ELSE @,
            !.obs.offNow = @ \cup {d}]

\* part_000 lines 609-626: one device; rec is read from the object taken at
\* line 607, the status is set in the global db and written before the
\* broadcast
HbDevice(m0) ==
  LET d == Head(m0.tick.dleft)
      m == [m0 EXCEPT !.tick.dleft = Tail(@), !.tick.dev = d]
      rec == m.tick.hb[d]
  IN IF rec.lastSeen = Null THEN HbNext(m)
     ELSE IF minutesSince(rec.lastSeen) >= m.db.thresholdMinutes /\ rec.status # "down"
       THEN HbBroadcast(NoteOffline(
              [writeDbSync([m EXCEPT !.db.heartbeats[d].status = "down"])
                 EXCEPT !.tick.left = m.db.partners], d), "offline")
     ELSE IF minutesSince(rec.lastSeen) < m.db.thresholdMinutes /\ rec.status = "down"
       THEN HbBroadcast([writeDbSync([m EXCEPT !.db.heartbeats[d].status = "ok"])
                           EXCEPT !.tick.left = m.db.partners], "restored")
     ELSE HbNext(m)

\* part_000 lines 523-608: reloadDb() at the start of the tick, before the
\* pending loop and before the heartbeats; const hb = db.heartbeats
AlertTickBegin(m0) ==
  LET m == reloadDb(m0)
  IN HbNext([m EXCEPT !.tick.pc = "run", !.tick.hb = m.db.heartbeats,
                      !.tick.dleft = DeviceKeys])

----------------------------------------------------------------------------
(* Scheduler tick, step 3: reminders (once/daily) *)

\* r.when = r.when + 1 day, or r.done = true: acts on the array element the
\* loop holds
RemFired(m) ==
  LET i == m.tick.ri
      r == m.tick.rems[i]
      a2 == IF r.repeat = "daily"
              THEN [m.tick.rems EXCEPT ![i].when = @ + DayUnits]
              ELSE [m.tick.rems EXCEPT ![i].done = TRUE]
  IN IF m.tick.remsLive
       THEN [m EXCEPT !.tick.rems = a2, !.db.rems = a2]
       ELSE [m EXCEPT !.tick.rems = a2]

\* line 573: db.reminders = db.reminders.filter(r => !r.done); writeDbSync(db)
PurgeDone(m) ==
  writeDbSync([m EXCEPT !.db.rems = SelectSeq(@, LAMBDA r : ~r.done),
                        !.tick.remsLive = FALSE])

----------------------------------------------------------------------------
(* Scheduler tick, steps 4 and 5: attendance daily prompt, end-of-day      *)
(* payment check.  The loop over the monthly-salaried staff (lines         *)
(* 618-641) sends on a payday and seven days before one, which the         *)
(* business date of the ticks is not.                                      *)

\* run the next stretch of code on the machine the previous one left
Then(m0, Op(_)) == CHOOSE r \in {Op(m) : m \in {m0}} : TRUE

RECURSIVE EodStaff(_)

\* lines 605-609: one await per partner, each in its own try/catch
EodSend(m) ==
  IF m.tick.left = <<>> THEN EodStaff(m)
  ELSE Suspend([Send(m, "payment", m.tick.scur, Head(m.tick.left))
                  EXCEPT !.tick.left = Tail(@),
                         !.obs.eodSent = @ \cup {m.tick.scur},
                         !.obs.eodTicks[LocalDay(m.tick.bizNow, 0)] =
                            IF m.obs.eodSent = {} THEN Min(@ + 1, CountCap) ELSE @],
               "eod_send")

\* lines 603-604: for (const s of db.staff) if (s.salaryType === "daily");
\* line 612 after the loop: db.lastSent[`paycheck_eod__${date}`] = now;
\* writeDbSync(db); then the monthly loop and step 6
EodStaff(m) ==
  IF m.tick.sleft = <<>>
    THEN Then(IF m.tick.due
                THEN writeDbSync([m EXCEPT !.db.marks.eod =
                                     @ \cup {LocalDay(m.tick.bizNow, 0)}])
                ELSE m, InvStart)
  ELSE LET st == Head(m.tick.sleft)
           m1 == [m EXCEPT !.tick.sleft = Tail(@), !.tick.scur = st.id]
       IN IF st.salaryType = "daily"
            THEN Then([m1 EXCEPT !.tick.left = m1.db.partners], EodSend)
            ELSE Then(m1, EodStaff)

\* lines 598-602: the configured minute in Asia/Kolkata, and no marker yet
EodDue(m) ==
  /\ LocalMinute(m.tick.bizNow, 0) = m.db.eodTime
  /\ LocalDay(m.tick.bizNow, 0) \notin m.db.marks.eod
EodStart(m) ==
  Then([m EXCEPT !.tick.due = EodDue(m),
                 !.tick.sleft = IF EodDue(m) THEN m.db.staff ELSE <<>>], EodStaff)

RECURSIVE AttStaff(_)

\* lines 588-590: one await per partner; the try/catch is around the staff
\* member's whole loop
AttSend(m) ==
  IF m.tick.left = <<>> THEN AttStaff(m)
  ELSE Suspend([Send(m, "attendance", m.tick.scur, Head(m.tick.left))
                  EXCEPT !.tick.left = Tail(@),
                         !.obs.attSent = @ \cup {m.tick.scur},
                         !.obs.attTicks[LocalDay(m.tick.bizNow, 0)] =
                            IF m.obs.attSent = {} THEN Min(@ + 1, CountCap) ELSE @],
               "att_send")

\* line 584: for (const s of (db.staff || [])); line 593 after the loop:
\* db.lastSent[`attendance_prompt__${date}`] = now; writeDbSync(db)
AttStaff(m) ==
  IF m.tick.sleft = <<>>
    THEN Then(IF m.tick.due
                THEN writeDbSync([m EXCEPT !.db.marks.att =
                                     @ \cup {LocalDay(m.tick.bizNow, 0)}])
                ELSE m, EodStart)
  ELSE LET st == Head(m.tick.sleft)
       IN Then([m EXCEPT !.tick.sleft = Tail(@), !.tick.scur = st.id,
                         !.tick.left = m.db.partners], AttSend)

\* variant: the marker is not consulted
AttDue_noMarker(m) ==
  LocalMinute(now, 0) = m.db.attTime
\* lines 577-583: const bizNow = dayjs().tz("Asia/Kolkata"); the configured
\* minute, and no marker yet
AttDue(m) ==
  /\ LocalMinute(now, 0) = m.db.attTime
  /\ LocalDay(now, 0) \notin m.db.marks.att
AttStart(m) ==
  Then([m EXCEPT !.tick.bizNow = now, !.tick.due = AttDue(m),
                 !.tick.sleft = IF AttDue(m) THEN m.db.staff ELSE <<>>], AttStaff)

----------------------------------------------------------------------------
(* Scheduler tick, step 3 (continued): the loop over db.reminders *)

\* after the reminders: the purge, then step 4
RemPurge(m) == Then(PurgeDone(m), AttStart)

RECURSIVE RemItem(_)

RemNext(m) ==
  LET m1 == [m EXCEPT !.tick.ri = @ + 1]
  IN IF m1.tick.ri > Len(m1.tick.rems) THEN RemPurge(m1) ELSE RemItem(m1)

\* lines 561-570: one await per target (each in its own try/catch), then
\* advance or mark done, write, logAudit
RemSendLoop(m) ==
  IF m.tick.left = <<>>
    THEN RemNext(logAudit(writeDbSync(RemFired(m))))
    ELSE Suspend([Send(m, "reminder", m.tick.rems[m.tick.ri].id, Head(m.tick.left))
                    EXCEPT !.tick.left = Tail(@),
                           !.obs.remSent[m.tick.rems[m.tick.ri].id][Head(m.tick.left)] =
                              Min(@ + 1, CountCap)],
                 "rem_send")

\* variant: the due test without the one-minute look-ahead
RemDue_noLookahead(r, t) == r.when < t

\* when.isBefore(now.add(1, "minute"))
RemDue(r, t) == r.when < t + Minutes(1)

RemTargets(m, r) == IF r.target = All THEN m.db.partners ELSE <<r.target>>

RemItem(m) ==
  LET r == m.tick.rems[m.tick.ri]
  IN IF r.done THEN RemNext(m)
     ELSE IF RemDue(r, m.tick.remNow)
       THEN RemSendLoop([m EXCEPT !.tick.left = RemTargets(m, r)])
       ELSE RemNext(m)

\* line 553-554: const now = dayjs(); for (const r of (db.reminders || []))
RemStart(m) ==
  RemNext([m EXCEPT !.tick.remNow = now, !.tick.rems = m.db.rems,
                    !.tick.remsLive = TRUE, !.tick.ri = 0,
                    !.obs.remAt = now, !.obs.remSnap = m.db.rems,
                    !.obs.steps = @ \cup {3}])

----------------------------------------------------------------------------
(* Scheduler tick, step 2 (continued): the loop over pending[date] *)

\* db.pendingConfirmations[date][pid].nextCheck = dayjs().add(mins, "minute");
\* writeDbSync(db).  Reading a property of a missing entry throws.
Reschedule(m, pid, mins) ==
  IF m.db.pend[pid].status = "absent" THEN Abort(m)
  ELSE writeDbSync(SetNextCheck(m, pid, now + Minutes(mins)))

RECURSIVE VegLoop(_)

\* line 542-543: URGENT to every partner, one await each, then
\* delete pending[date][pid]; writeDbSync(db)
Escalate(m) ==
  IF m.tick.left = <<>>
    THEN VegLoop(writeDbSync(DeletePending(m, m.tick.pid)))
    ELSE Suspend([Send(m, "urgent", m.tick.pid, Head(m.tick.left))
                    EXCEPT !.tick.left = Tail(@)], "veg_urgent")

\* variant: the pending branch merged with the notyet branch
PendingDue_likeNotyet(m, pid) == Suspend(Send(m, "prompt", pid, pid), "veg_notyet")

\* line 545-547: status pending with nextCheck elapsed
PendingDue(m, pid) == VegLoop(Reschedule(m, pid, m.db.f1))

\* variant: the escalation branch is missing, `no` always gets the soft reminder
VegDue_noEscalation(m0, pid) ==
  LET m == findPartner(m0)
      rec == m.tick.pending[pid]
  IN IF ~IsPartner(m.db, pid)
       THEN VegLoop(writeDbSync(DeletePending(m, pid)))
     ELSE IF rec.status = "notyet"
       THEN Suspend(Send(m, "prompt", pid, pid), "veg_notyet")
     ELSE IF rec.status = "no"
       THEN Suspend(Send(m, "soft", pid, pid), "veg_soft")
     ELSE IF rec.status = "pending"
       THEN PendingDue(m, pid)
     ELSE VegLoop(m)

\* lines 531-547: nextCheck has elapsed
VegDue(m0, pid) ==
  LET m == findPartner(m0)
      rec == m.tick.pending[pid]
  IN IF ~IsPartner(m.db, pid)
       THEN VegLoop(writeDbSync(DeletePending(m, pid)))
     ELSE IF rec.status = "notyet"
       THEN Suspend(Send(m, "prompt", pid, pid), "veg_notyet")
     ELSE IF rec.status = "no"
       THEN IF minutesSince(rec.lastUpdated) < m.db.f2
              THEN Suspend(Send(m, "soft", pid, pid), "veg_soft")
              ELSE Escalate([m EXCEPT !.tick.left = m.db.partners])
     ELSE IF rec.status = "pending"
       THEN PendingDue(m, pid)
     ELSE VegLoop(m)

\* lines 525-530, one iteration per key; after the last key step 3 begins
VegLoop(m) ==
  IF m.tick.pc = "idle" THEN m          \* aborted by an exception
  ELSE IF m.tick.keys = <<>> THEN RemStart(m)
  ELSE LET pid == Head(m.tick.keys)
           m1 == [m EXCEPT !.tick.keys = Tail(@), !.tick.pid = pid]
           rec == m.tick.pending[pid]
       IN IF rec.status = "absent" THEN VegLoop(m1)
          ELSE IF rec.status = "confirmed"
            THEN VegLoop(writeDbSync(DeletePending(m1, pid)))
          ELSE IF rec.nextCheck = Null
            THEN VegLoop(Reschedule(m1, pid, m1.db.f1))
          ELSE IF IsBefore(rec.nextCheck, now)
            THEN VegDue(m1, pid)
          ELSE VegLoop(m1)

----------------------------------------------------------------------------
(* Scheduler tick, step 1: schedules (veg + others) *)

\* lines 523-525: const pending = db.pendingConfirmations; the loop begins
VegStart(m) ==
  VegLoop([m EXCEPT !.tick.pending = m.db.pend, !.tick.pendLive = TRUE,
                    !.tick.keys = ObjectKeys(m.db.pend)])

\* a scheduled message went to partner p: note its local calendar day
NoteSched(m, sid, p) ==
  LET d == LocalDay(now, m.db.tz[p])
  IN IF m.tick.threw THEN m ELSE
     [m EXCEPT !.obs.dupl = IF m.obs.lastDay[sid][p] = d THEN @ \cup {<<sid, p>>} ELSE @,
               !.obs.early = IF /\ m.obs.lastDay[sid][p] # NoDay
                                /\ d - m.obs.lastDay[sid][p] <
                                     m.tick.schedules[m.tick.si].intervalDays
                               THEN @ \cup {<<sid, p>>} ELSE @,
               !.obs.lastDay[sid][p] = d]

RECURSIVE SchedNext(_)

\* lines 509-510: lastSent of every partner of the tick's list, then write
SchedVegDone(m) ==
  LET sid == m.tick.schedules[m.tick.si].id
      ls == [p \in PartnerIds |-> IF p \in Range(m.tick.partners)
                                    THEN now ELSE m.db.lastSent[sid][p]]
  IN SchedNext(writeDbSync([m EXCEPT !.db.lastSent[sid] = ls]))

RECURSIVE SendVegLoop(_)

\* lines 476-480: one partner of sendVegConfirmForDate, up to the awaited send
SendVegLoop(m) ==
  IF m.tick.vleft = <<>> THEN SchedVegDone(m)
  ELSE LET q == Head(m.tick.vleft)
           existing == m.db.pend[q]
           m1 == [m EXCEPT !.tick.vleft = Tail(@), !.tick.vcur = q,
                           !.tick.vexisting = (existing.status # "absent"),
                           !.obs.vegSeen = @ \cup {q},
                           !.obs.vegExisting[q] = existing,
                           !.obs.vegAfter[q] = existing]
       IN IF existing.status = "confirmed" THEN SendVegLoop(m1)
          ELSE Suspend(NoteSched(Send([m1 EXCEPT !.obs.vegTo = @ \cup {q}],
                                      "vegcheck", q, q), "vegetables", q),
                       "veg_send")

\* variant: the entry is written whether or not one existed
SendVegCreated_always(m) ==
  LET q == m.tick.vcur
      m1 == writeDbSync([reloadDb(m) EXCEPT !.db.pend[q] = PendingEntry(now),
                                            !.obs.vegWrote = @ \cup {q}])
  IN SendVegLoop([m1 EXCEPT !.obs.vegAfter[q] = m1.db.pend[q]])

\* line 481, after the awaited send: if (!existing) { reloadDb(); ...
\* = { status: "pending", lastUpdated: now, nextCheck: null }; writeDbSync(db) }
SendVegCreated(m) ==
  LET q == m.tick.vcur
      m1 == IF m.tick.vexisting THEN m
            ELSE writeDbSync([reloadDb(m) EXCEPT !.db.pend[q] = PendingEntry(now),
                                                  !.obs.vegWrote = @ \cup {q}])
  IN SendVegLoop([m1 EXCEPT !.obs.vegAfter[q] = m1.db.pend[q]])

\* lines 472-476: reloadDb(); return when no schedule is named vegetables
sendVegConfirmForDate(m) ==
  LET m1 == reloadDb(m)
      m2 == [m1 EXCEPT !.obs.vegSeen = {}, !.obs.vegTo = {}, !.obs.vegWrote = {}]
  IN IF \A i \in DOMAIN m2.db.schedules : m2.db.schedules[i].id # "vegetables"
       THEN SchedVegDone(m2)
       ELSE SendVegLoop([m2 EXCEPT !.tick.vleft = m2.db.partners])

\* lines 513-515, after the awaited send: db.lastSent[key] = now; writeDbSync(db)
SchedSent(m) ==
  LET s == m.tick.schedules[m.tick.si]
      p == m.tick.partners[m.tick.pi]
  IN SchedNext(writeDbSync([m EXCEPT !.db.lastSent[s.id][p] = now]))

\* line 505: lastSentDay === today
SameDay(a, b) == a = b

\* lines 496-513: one (schedule, partner) pair
SchedItem(m) ==
  LET s == m.tick.schedules[m.tick.si]
      p == m.tick.partners[m.tick.pi]
      tz == m.db.tz[p]
      lastSentIso == m.db.lastSent[s.id][p]
      lastSentDay == IF lastSentIso = Null THEN NoDay ELSE LocalDay(lastSentIso, tz)
      today == LocalDay(now, tz)
  IN IF LocalMinute(now, tz) # s.time THEN SchedNext(m)
     ELSE IF SameDay(lastSentDay, today) THEN SchedNext(m)
     ELSE IF s.id = "vegetables" THEN sendVegConfirmForDate(m)
     ELSE Suspend(NoteSched(Send(m, "sched", m.tick.si, p), s.id, p), "sched_send")

\* lines 494-495: the next partner, or the next schedule, or step 2
SchedNext(m) ==
  LET np == m.tick.pi + 1
      m1 == IF np > Len(m.tick.partners)
              THEN [m EXCEPT !.tick.si = @ + 1, !.tick.pi = 1]
              ELSE [m EXCEPT !.tick.pi = np]
  IN IF m1.tick.si > Len(m1.tick.schedules) \/ m1.tick.partners = <<>>
       THEN VegStart(m1)
       ELSE SchedItem(m1)

\* lines 490-494: const partners = db.partners; const schedules = db.schedules
SchedStart(m) ==
  SchedNext([m EXCEPT !.tick.partners = m.db.partners,
                      !.tick.schedules = m.db.schedules,
                      !.tick.si = 1, !.tick.pi = 0])

----------------------------------------------------------------------------
(* History kept for the properties; the program does not read it.          *)
(*   press[p]    the last veg button p pressed, when, the one before, and  *)
(*               how many presses                                          *)
(*   during      partners whose press was handled after the running tick   *)
(*               started                                                   *)
(*   confStart   partners whose entry was `confirmed` on disk when the     *)
(*               last tick started and who pressed nothing since           *)
(*   pendStart   partners whose entry was `pending` with an elapsed        *)
(*               nextCheck when the last tick started, no press since      *)
(*   esc         partners escalated by the last tick, no press since       *)
(*   above[i]    item i has had daysLeft above warnDays (or infinite)      *)
(*   aboveC[i]   the same for criticalDays                                 *)
(*   dirty       items changed by a handler since the last tick started    *)
(*   once        ids of the reminders created with repeat "once"           *)
(*   donePressed ids of the reminders whose Done button was pressed        *)
(*   doneStart   those of them pressed before the last tick started        *)
(*   raced       ids of the reminders at whose send the last tick was      *)
(*               suspended when a handler ran                              *)

NoPress == [kind |-> "none", at |-> 0, prev |-> "none", n |-> 0]

IsAbove(item) == ~DaysFinite(item) \/ ~DaysLeftLeq(item, WarnDays(item))
IsAboveC(item) == ~DaysFinite(item) \/ ~DaysLeftLeq(item, CriticalDays(item))

InitHist(doc) ==
  [press |-> [p \in PartnerIds |-> NoPress],
   during |-> {},
   confStart |-> {},
   pendStart |-> {},
   esc |-> {},
   above |-> {i \in DOMAIN doc.inv : IsAbove(doc.inv[i])},
   aboveC |-> {i \in DOMAIN doc.inv : IsAboveC(doc.inv[i])},
   dirty |-> DOMAIN doc.inv,
   once |-> {doc.rems[i].id : i \in {j \in DOMAIN doc.rems : doc.rems[j].repeat = "once"}},
   donePressed |-> {},
   doneStart |-> {},
   raced |-> {},
   granted |-> doc.tempAdmin,
   last |-> NoLast,
   obs |-> NoObs]

\* after a step of the tick: note an escalation that has just been sent
HistAfterTick(h, t) ==
  IF t.pc = "veg_urgent" THEN [h EXCEPT !.esc = @ \cup {t.pid}] ELSE h

----------------------------------------------------------------------------
(* The scheduler tick as actions: it runs from its start, or from the      *)
(* completion of the send it was awaiting, up to the next await.           *)

\* what is noted per tick starts empty
TickObs(o) == [o EXCEPT !.remSnap = <<>>, !.remSent = NoObs.remSent,
                        !.invSnap = <<>>, !.lowSent = {}, !.critSent = {},
                        !.lowDone = {}, !.critDone = {},
                        !.steps = {}, !.attSent = {}, !.eodSent = {}]

\* line 487-489: reloadDb(); step 1 begins
TickBegin(m0) ==
  LET m == reloadDb(m0)
  IN SchedStart([m EXCEPT !.tick.pc = "run", !.obs = TickObs(@)])

\* the awaited send has thrown: the innermost try/catch around it takes
\* over (line 480 in sendVegConfirmForDate, line 518 per schedule and
\* partner, line 566 per reminder target, line 591 per member of staff,
\* line 608 per payment check), else the tick's own (line 663)
TickCatch(m, pc) ==
  CASE pc = "veg_send"   -> SendVegCreated(m)
    [] pc = "sched_send" -> SchedNext(m)
    [] pc = "rem_send"   -> RemSendLoop(m)
    [] pc = "att_send"   -> AttStaff(m)
    [] pc = "eod_send"   -> EodSend(m)
    [] OTHER             -> Abort(m)

\* the continuation after the awaited send
TickContinue(m0) ==
  LET m == [m0 EXCEPT !.tick.pc = "run", !.tick.threw = FALSE]
      pc == m0.tick.pc
  IN IF m0.tick.threw THEN TickCatch(m, pc) ELSE
     CASE pc = "veg_send"   -> SendVegCreated(m)
       [] pc = "sched_send" -> SchedSent(m)
       [] pc = "veg_notyet" -> VegLoop(Reschedule(m, m.tick.pid, m.db.f1))
       [] pc = "veg_soft"   -> VegLoop(Reschedule(m, m.tick.pid, m.db.f2))
       [] pc = "veg_urgent" -> Escalate(m)
       [] pc = "rem_send"   -> RemSendLoop(m)
       [] pc = "att_send"   -> AttSend(m)
       [] pc = "eod_send"   -> EodSend(m)
       [] pc = "inv_low"    -> LowBroadcast(m)
       [] pc = "inv_crit"   -> CriticalBroadcast(m)
       [] pc = "hb_down"    -> HbBroadcast(m, "offline")
       [] pc = "hb_up"      -> HbBroadcast(m, "restored")

Apply(m) ==
  /\ disk' = m.disk
  /\ db' = m.db
  /\ tick' = m.tick
  /\ sent' = m.sent
  /\ env' = m.env
  /\ parked' = parked

TickStart ==
  /\ tick.pc = "idle"
  /\ lastTick < now
  /\ Apply(TickBegin(Machine))
  /\ lastTick' = now
  /\ hist' = HistAfterTick([hist EXCEPT !.during = {}, !.esc = {}, !.dirty = {},
                 !.raced = {},
                 !.obs = TickBegin(Machine).obs,
                 !.doneStart = hist.donePressed,
                 !.confStart = {p \in PartnerIds : disk.pend[p].status = "confirmed"},
                 !.pendStart = {p \in PartnerIds : /\ disk.pend[p].status = "pending"
                                                   /\ disk.pend[p].nextCheck # Null
                                                   /\ disk.pend[p].nextCheck < now}],
               tick')
  /\ UNCHANGED <<now, nops>>

TickResume ==
  /\ tick.pc # "idle"
  /\ Apply(TickContinue(Machine))
  /\ hist' = HistAfterTick([hist EXCEPT !.obs = TickContinue(Machine).obs], tick')
  /\ UNCHANGED <<now, lastTick, nops>>

\* the clock: ticks may be late or missed for any length of time
Advance ==
  /\ now < MaxTime
  /\ now' = now + 1
  /\ UNCHANGED <<lastTick, nops, disk, db, tick, sent, hist, env, parked>>

\* the clock under the regular schedule of setInterval(..., 30 * 1000):
\* every period has exactly one tick, which completes within the period
RegularStep(horizon) ==
  /\ now < horizon
  /\ lastTick = now
  /\ tick.pc = "idle"
  /\ now' = now + 1
  /\ UNCHANGED <<lastTick, nops, disk, db, tick, sent, hist, env, parked>>

AdvanceRegular == RegularStep(MaxRegularTime)
\* the horizon of the inventory monitor: enough periods for a breach, a
\* recovery and a second breach
MaxInvTime == 3
AdvancePeriod == RegularStep(MaxInvTime)

----------------------------------------------------------------------------
(* Handlers; each runs between two steps of the tick *)

\* variant: the yes branch is missed and yes falls into the no/notyet branch
vegCallback_yesFallsThrough(m0, pid, action) ==
  LET m == reloadDb(m0)
      e == [status |-> IF action = "no" THEN "no" ELSE "notyet", lastUpdated |-> now,
            nextCheck |-> now + Minutes(m.db.f1)]
  IN logAudit(writeDbSync([m EXCEPT !.db.pend[pid] = e]))

\* callback veg:<date>:<yes|no|notyet>, lines 137-158; the acknowledgement
\* sent to the presser and the trailing logAudit change nothing else
vegCallback(m0, pid, action) ==
  LET m == reloadDb(m0)
      e == IF action = "yes"
             THEN [status |-> "confirmed", lastUpdated |-> now, nextCheck |-> Null]
             ELSE [status |-> action, lastUpdated |-> now,
                   nextCheck |-> now + Minutes(m.db.f1)]
  IN logAudit(writeDbSync([m EXCEPT !.db.pend[pid] = e]))

VegPress(p, action) ==
  /\ nops < MaxOps
  /\ Apply(vegCallback(Machine, p, action))
  /\ nops' = nops + 1
  /\ hist' = [hist EXCEPT !.press[p] = [kind |-> action, at |-> now, prev |-> @.kind,
                                        n |-> Min(@.n + 1, CountCap)],
                          !.during = IF tick.pc = "idle" THEN @ ELSE @ \cup {p},
                          !.confStart = @ \ {p},
                          !.pendStart = @ \ {p},
                          !.esc = @ \ {p}]
  /\ UNCHANGED <<now, lastTick>>

\* a handler that only re-reads the document (/inventory, /myreminders, the
\* getSession of any plain message)
inventoryCmd(m) == reloadDb(m)

\* a handler has run: the reminder whose send the tick is suspended at
Raced(h) ==
  [h EXCEPT !.raced = IF tick.pc = "rem_send" THEN @ \cup {tick.rems[tick.ri].id} ELSE @]

ReloadOnly ==
  /\ Apply(inventoryCmd(Machine))
  /\ hist' = Raced(hist)
  /\ UNCHANGED <<now, lastTick, nops>>

\* variant: Done is honoured for `once` reminders only
remdone_onceOnly(m0, id) ==
  LET m == reloadDb(m0)
      hit == {i \in DOMAIN m.db.rems : m.db.rems[i].id = id /\ m.db.rems[i].repeat # "daily"}
  IN IF hit = {} THEN m
     ELSE logAudit(writeDbSync(
            [m EXCEPT !.db.rems = [i \in DOMAIN @ |->
                                     IF i \in hit THEN [@[i] EXCEPT !.done = TRUE] ELSE @[i]]]))

\* callback remdone:<id>, lines 670-681: reloadDb(); find; r.done = true;
\* writeDbSync(db); (acknowledgements); logAudit
remdone(m0, id) ==
  LET m == reloadDb(m0)
      hit == {i \in DOMAIN m.db.rems : m.db.rems[i].id = id}
  IN IF hit = {} THEN m
     ELSE LET i == CHOOSE x \in hit : \A y \in hit : x <= y
          IN logAudit(writeDbSync([m EXCEPT !.db.rems[i].done = TRUE]))

\* the Done button of a reminder message that has been received
RemDone(id) ==
  /\ nops < MaxOps
  /\ \E t \in PartnerIds : sent["reminder"][id][t] >= 1
  /\ Apply(remdone(Machine, id))
  /\ nops' = nops + 1
  /\ hist' = [Raced(hist) EXCEPT !.donePressed =
                 IF \E i \in DOMAIN disk.rems : disk.rems[i].id = id THEN @ \cup {id} ELSE @]
  /\ UNCHANGED <<now, lastTick>>

\* purchase flow, step 3 (line 386): it.stock = (it.stock || 0) + qty
purchaseCommit(m0, i, qty) ==
  LET m == reloadDb(m0)
  IN logAudit(writeDbSync([m EXCEPT !.db.inv[i].stock = @ + qty]))

\* setusage flow, step 2 (line 392): it.dailyUsage = u
setusageCommit(m0, i, u) ==
  LET m == reloadDb(m0)
  IN logAudit(writeDbSync([m EXCEPT !.db.inv[i].dailyUsage = u]))

HistAfterItem(h, doc, i) ==
  [h EXCEPT !.dirty = @ \cup {i},
            !.above = IF IsAbove(doc.inv[i]) THEN @ \cup {i} ELSE @,
            !.aboveC = IF IsAboveC(doc.inv[i]) THEN @ \cup {i} ELSE @]

PurchaseQty == {0 - 2, 2}
UsageValues == {0, 1, 2}
MaxStock == 8

Purchase(i, qty) ==
  /\ nops < MaxOps
  /\ i \in DOMAIN disk.inv
  /\ disk.inv[i].stock + qty \in 0..MaxStock
  /\ Apply(purchaseCommit(Machine, i, qty))
  /\ nops' = nops + 1
  /\ hist' = HistAfterItem(hist, disk', i)
  /\ UNCHANGED <<now, lastTick>>

SetUsage(i, u) ==
  /\ nops < MaxOps
  /\ i \in DOMAIN disk.inv
  /\ disk.inv[i].dailyUsage # u
  /\ Apply(setusageCommit(Machine, i, u))
  /\ nops' = nops + 1
  /\ hist' = HistAfterItem(hist, disk', i)
  /\ UNCHANGED <<now, lastTick>>

----------------------------------------------------------------------------
(* Commands, buttons and the message handler of the interactive flows.    *)
(* A handler yields the machine it leaves behind, the reply it attempted   *)
(* and whether a rejected reply escaped it.  Free text that is stored and  *)
(* never tested (item name, unit, reminder text) is not kept.              *)

\* lines 60-62
setSession(m0, u, s) ==
  LET m == reloadDb(m0)
  IN writeDbSync([m EXCEPT !.db.sessions[u] = s])
getSession(m, u) == m.db.sessions[u]
clearSession(m0, u) ==
  LET m == reloadDb(m0)
  IN IF m.db.sessions[u] # NoSession
       THEN writeDbSync([m EXCEPT !.db.sessions[u] = NoSession])
       ELSE m

\* line 54, with the entry kept: reloadDb(); db.audit.push(...); writeDbSync
logAuditAs(m0, action) ==
  LET m == reloadDb(m0)
  IN writeDbSync([m EXCEPT !.db.audit = Append(@, action)])

\* variant: every partner is an admin
isAdmin_anyPartner(doc, u) == u \in Range(doc.partners)
\* line 55, after its reloadDb(): a partner with role owner or admin
isAdmin(doc, u) == u \in Range(doc.partners) /\ doc.role[u] \in {"owner", "admin"}

\* the staff member with this id, as db.staff.find(...) has it
StaffIdx(doc, id) == {i \in DOMAIN doc.staff : doc.staff[i].id = id}
ItemIdx(doc, id) == {i \in DOMAIN doc.inv : doc.inv[i].id = id}
FirstOf(S) == CHOOSE i \in S : \A j \in S : i <= j

\* line 58: upsertStaff(userId, name, role)
upsertStaff(m0, id) ==
  LET m == reloadDb(m0)
  IN IF StaffIdx(m.db, id) # {} THEN writeDbSync(m)
     ELSE writeDbSync([m EXCEPT !.db.staff = Append(@, Staff(id, "daily"))])

\* ctx.reply / ctx.api.sendMessage to the user; `caught` tells whether the
\* call is awaited inside the handler's try block
Replied(m, u, reply, caught) ==
  [m |-> m, reply |-> reply, escaped |-> (u \in m.env.down /\ ~caught)]
\* return next(): no reply
Passed(m) == [m |-> m, reply |-> "next", escaped |-> FALSE]

RemoveAt(s, i) == SubSeq(s, 1, i - 1) \o SubSeq(s, i + 1, Len(s))

\* the commands a user can send, with the arguments that matter; `args`
\* tells whether the arguments the command needs were given
NoArgs(c) == [c |-> c, args |-> FALSE, id |-> 0, role |-> "staff", type |-> "daily", amt |-> ""]
Commands ==
  {NoArgs(c) : c \in {"additem", "purchase", "setusage", "addreminder", "cancel", "addpartner"}}
    \cup {[NoArgs("addpartner") EXCEPT !.args = TRUE, !.id = i, !.role = "admin"] : i \in {2, 3}}
    \cup {[NoArgs("removepartner") EXCEPT !.args = TRUE, !.id = i] : i \in {2, 3}}
    \cup {[NoArgs("setsalary") EXCEPT !.args = TRUE, !.id = 2, !.type = "monthly", !.amt = a] :
            a \in {"2", "a"}}
    \cup {[NoArgs("pay") EXCEPT !.args = TRUE, !.id = i] : i \in {2, 3}}
    \cup {[NoArgs("attendance") EXCEPT !.args = TRUE, !.id = 2]}

\* the commands that begin with the isAdmin test
Privileged ==
  {"addpartner", "removepartner", "additem", "purchase", "setusage", "setsalary", "pay",
   "attendance"}

\* lines 228-240
addpartner(m0, u, c) ==
  LET m == reloadDb(m0)
      m1 == writeDbSync([m EXCEPT !.db.partners = Append(@, c.id), !.db.role[c.id] = c.role])
  IN IF ~c.args THEN Replied(m, u, "usage", FALSE)
     ELSE IF c.id \in Range(m.db.partners) THEN Replied(m, u, "partner_exists", FALSE)
     ELSE Replied(logAuditAs(upsertStaff(m1, c.id), "addpartner"), u, "partner_added", FALSE)

\* lines 241-251
removepartner(m0, u, c) ==
  LET m == reloadDb(m0)
      hit == {i \in DOMAIN m.db.partners : m.db.partners[i] = c.id}
      m1 == writeDbSync([m EXCEPT !.db.partners = RemoveAt(@, FirstOf(hit)),
                                  !.db.role[c.id] = "none"])
  IN IF ~c.args THEN Replied(m, u, "usage", FALSE)
     ELSE IF hit = {} THEN Replied(m, u, "partner_notfound", FALSE)
     ELSE Replied(logAuditAs(m1, "removepartner"), u, "partner_removed", FALSE)

\* lines 281-296
setsalary(m0, u, c) ==
  LET m == reloadDb(m0)
      hit == StaffIdx(m.db, c.id)
      i == FirstOf(hit)
      m1 == writeDbSync([m EXCEPT !.db.staff[i].salaryType =
                                     IF c.type = "monthly" THEN "monthly" ELSE "daily",
                                  !.db.staff[i].salaryAmount = Number(c.amt)])
  IN IF ~c.args THEN Replied(m, u, "usage", FALSE)
     ELSE IF isNaN(c.amt) THEN Replied(m, u, "enter_number", FALSE)
     ELSE IF hit = {} THEN Replied(m, u, "staff_notfound", FALSE)
     ELSE Replied(logAuditAs(m1, "setsalary"), u, "salary_set", FALSE)

\* lines 299-310 (/pay) and 340-352 (/attendance): a lookup and a reply
staffView(m0, u, c) ==
  LET m == reloadDb(m0)
  IN IF ~c.args THEN Replied(m, u, "usage", FALSE)
     ELSE IF StaffIdx(m.db, c.id) = {} THEN Replied(m, u, "staff_notfound", FALSE)
     ELSE Replied(m, u, "shown", FALSE)

\* lines 254-268, 355-358: the commands that start a flow
startFlow(m, u, action) ==
  Replied(setSession(m, u, Session(action, 1, NoTemp)), u, "step1", FALSE)

\* a command; none of the command handlers has a try block, and the commands
\* of Privileged begin with `if (!isAdmin(ctx.from.id)) return ctx.reply(...)`
command(m0, u, c) ==
  LET m == reloadDb(m0)
  IN IF c.c \in Privileged /\ ~isAdmin(m.db, u) THEN Replied(m, u, "notauth", FALSE)
     ELSE CASE c.c = "addpartner" -> addpartner(m0, u, c)
            [] c.c = "removepartner" -> removepartner(m0, u, c)
            [] c.c = "setsalary" -> setsalary(m0, u, c)
            [] c.c \in {"pay", "attendance"} -> staffView(m0, u, c)
            [] c.c = "cancel" -> Replied(clearSession(m0, u), u, "cancelled", FALSE)
            [] OTHER -> startFlow(m0, u, c.c)

\* lines 112-118: the Quick Add Item button; the sends are awaited inside
\* the callback handler's try block
quickadd(m0, u) ==
  LET m == reloadDb(m0)
  IN IF ~isAdmin(m.db, u) THEN Replied(m, u, "notauth", TRUE)
     ELSE Replied(setSession(m0, u, Session("additem", 1, NoTemp)), u, "step1", TRUE)

\* src/unnamed/part_000 lines 158-164: the Quick Add Item button of that
\* variant; setSession (lines 69-74) replaces the session as in src/index.js
quickadd000(m0, u) ==
  Replied(setSession(m0, u, Session("additem", 1, NoTemp)), u, "step1", TRUE)

\* lines 163-193: the Paid / Partial / Not paid buttons
payCallback(m0, u, sid, action) ==
  LET m == reloadDb(m0)
      hit == StaffIdx(m.db, sid)
      st == m.db.staff[FirstOf(hit)]
      pay(amount) == writeDbSync([m EXCEPT !.db.payments =
                                     Append(@, [staffId |-> sid, amount |-> amount, by |-> u])])
  IN IF hit = {} THEN Replied(m, u, "staff_notfound", TRUE)
     ELSE CASE action = "yes" ->
                 LET r == Replied(pay(st.salaryAmount), u, "paid", TRUE)
                 IN IF u \in m.env.down THEN r
                    ELSE [r EXCEPT !.m = logAuditAs(r.m, "pay_full")]
            [] action = "partial" ->
                 Replied(setSession(m, u, Session("pay_partial", 1,
                                                  [NoTemp EXCEPT !.staffId = sid])),
                         u, "step1", TRUE)
            [] OTHER ->
                 LET r == Replied(pay(0), u, "unpaid", TRUE)
                 IN IF u \in m.env.down THEN r
                    ELSE [r EXCEPT !.m = logAuditAs(r.m, "pay_none")]

\* lines 316-317: staff.attendance[today] = staff.attendance[today] ||
\* { in: null, out: null, status: null }, in memory
TodayOf(m, i) == [m EXCEPT !.db.staff[i].att.made = TRUE]

\* lines 313-324: /clockin; getStaff(uid) || upsertStaff(uid, ...)
clockin(m0, u) ==
  LET m1 == reloadDb(m0)
      m2 == IF StaffIdx(m1.db, u) = {} THEN upsertStaff(m1, u) ELSE m1
      i == FirstOf(StaffIdx(m2.db, u))
      m == TodayOf(m2, i)
  IN IF m.db.staff[i].att.in # Null THEN Replied(m, u, "already_in", FALSE)
     ELSE Replied(logAuditAs(writeDbSync([m EXCEPT !.db.staff[i].att.in = now]), "clockin"),
                  u, "clocked_in", FALSE)

\* variant: without the test that the user has clocked in
clockout_withoutIn(m0, u) ==
  LET m1 == reloadDb(m0)
      i == FirstOf(StaffIdx(m1.db, u))
      m == TodayOf(m1, i)
  IN IF StaffIdx(m1.db, u) = {} THEN Replied(m1, u, "not_registered", FALSE)
     ELSE IF m.db.staff[i].att.out # Null THEN Replied(m, u, "already_out", FALSE)
     ELSE Replied(logAuditAs(writeDbSync([m EXCEPT !.db.staff[i].att.out = now]), "clockout"),
                  u, "clocked_out", FALSE)

\* lines 325-338: /clockout
clockout(m0, u) ==
  LET m1 == reloadDb(m0)
      i == FirstOf(StaffIdx(m1.db, u))
      m == TodayOf(m1, i)
  IN IF StaffIdx(m1.db, u) = {} THEN Replied(m1, u, "not_registered", FALSE)
     ELSE IF m.db.staff[i].att.in = Null THEN Replied(m, u, "not_in", FALSE)
     ELSE IF m.db.staff[i].att.out # Null THEN Replied(m, u, "already_out", FALSE)
     ELSE Replied(logAuditAs(writeDbSync([m EXCEPT !.db.staff[i].att.out = now]), "clockout"),
                  u, "clocked_out", FALSE)

\* lines 198-215: the Present / Absent / Leave buttons; the sends are awaited
\* inside the callback handler's try block
attCallback(m0, u, sid, action) ==
  LET m1 == reloadDb(m0)
      i == FirstOf(StaffIdx(m1.db, sid))
      m == TodayOf(m1, i)
  IN IF StaffIdx(m1.db, sid) = {} THEN Replied(m1, u, "staff_notfound", TRUE)
     ELSE LET r == Replied(writeDbSync([m EXCEPT !.db.staff[i].att.status = action]),
                           u, "marked", TRUE)
          IN IF u \in m.env.down THEN r
             ELSE [r EXCEPT !.m = logAuditAs(r.m, "attendance_mark")]

\* an item as the additem flow creates it (line 379)
FlowItem(id, stock, usage) == [id |-> id] @@ Item(stock, usage)

\* the step is confirmed: the session moves on (setSession) and the next
\* question is asked
Advanced(m, u, s) ==
  Replied(setSession(m, u, [s EXCEPT !.step = @ + 1]), u, "asked", FALSE)

\* lines 375-380: the additem flow
msgAdditem(m, u, s, text) ==
  CASE s.step = 1 -> Advanced(m, u, [s EXCEPT !.temp.id = ItemId(text)])
    [] s.step = 2 -> Advanced(m, u, s)
    [] s.step = 3 ->
         IF isNaN(text) THEN Replied(m, u, "enter_number", FALSE)
         ELSE Advanced(m, u, [s EXCEPT !.temp.num = Number(text)])
    [] s.step = 4 ->
         IF isNaN(text) THEN Replied(m, u, "enter_number", FALSE)
         ELSE LET m1 == reloadDb(m)
                  m2 == writeDbSync([m1 EXCEPT !.db.inv =
                           Append(@, FlowItem(s.temp.id, Number(text), s.temp.num))])
              IN IF ItemIdx(m1.db, s.temp.id) # {}
                   THEN Replied(clearSession(m1, u), u, "item_exists", FALSE)
                   ELSE Replied(clearSession(logAuditAs(m2, "additem"), u),
                                u, "item_added", FALSE)
    [] OTHER -> Passed(m)

\* lines 383-387: the purchase flow
msgPurchase(m, u, s, text) ==
  CASE s.step = 1 -> Advanced(m, u, [s EXCEPT !.temp.id = text])
    [] s.step = 2 ->
         IF isNaN(text) THEN Replied(m, u, "enter_number", FALSE)
         ELSE Advanced(m, u, [s EXCEPT !.temp.num = Number(text)])
    [] s.step = 3 ->
         LET m1 == reloadDb(m)
             hit == ItemIdx(m1.db, s.temp.id)
             m2 == writeDbSync([m1 EXCEPT !.db.inv[FirstOf(hit)].stock = @ + s.temp.num])
         IN IF hit = {}
              THEN Replied(clearSession(m1, u), u, "item_notfound", FALSE)
              ELSE Replied(clearSession(logAuditAs(m2, "purchase"), u),
                           u, "purchased", FALSE)
    [] OTHER -> Passed(m)

\* variant: the session is kept when the usage has been set
msgSetusage_keepsSession(m, u, s, text) ==
  CASE s.step = 1 -> Advanced(m, u, [s EXCEPT !.temp.id = text])
    [] s.step = 2 ->
         IF isNaN(text) THEN Replied(m, u, "enter_number", FALSE)
         ELSE LET m1 == reloadDb(m)
                  hit == ItemIdx(m1.db, s.temp.id)
                  m2 == writeDbSync([m1 EXCEPT !.db.inv[FirstOf(hit)].dailyUsage =
                                                  Number(text)])
              IN IF hit = {}
                   THEN Replied(clearSession(m1, u), u, "item_notfound", FALSE)
                   ELSE Replied(logAuditAs(m2, "setusage"), u, "usage_set", FALSE)
    [] OTHER -> Passed(m)
\* lines 390-393: the setusage flow
msgSetusage(m, u, s, text) ==
  CASE s.step = 1 -> Advanced(m, u, [s EXCEPT !.temp.id = text])
    [] s.step = 2 ->
         IF isNaN(text) THEN Replied(m, u, "enter_number", FALSE)
         ELSE LET m1 == reloadDb(m)
                  hit == ItemIdx(m1.db, s.temp.id)
                  m2 == writeDbSync([m1 EXCEPT !.db.inv[FirstOf(hit)].dailyUsage =
                                                  Number(text)])
              IN IF hit = {}
                   THEN Replied(clearSession(m1, u), u, "item_notfound", FALSE)
                   ELSE Replied(clearSession(logAuditAs(m2, "setusage"), u),
                                u, "usage_set", FALSE)
    [] OTHER -> Passed(m)

\* variant: an unparsable date-time is stored as it is
msgAddreminder_anyDate(m, u, s, text, w) ==
  CASE s.step = 1 -> Advanced(m, u, [s EXCEPT !.temp.target = TargetOf(u, text)])
    [] s.step = 2 -> Advanced(m, u, s)
    [] s.step = 3 -> Advanced(m, u, [s EXCEPT !.temp.when = w])
    [] s.step = 4 ->
         IF Lower(text) \notin {"once", "daily"}
           THEN Replied(m, u, "enter_repeat", FALSE)
         ELSE LET m1 == reloadDb(m)
                  m2 == writeDbSync([m1 EXCEPT !.db.rems =
                           Append(@, Reminder(now, s.temp.target, s.temp.when, Lower(text)))])
              IN Replied(clearSession(logAuditAs(m2, "addreminder"), u),
                         u, "reminder_saved", FALSE)
    [] OTHER -> Passed(m)
\* lines 396-423: the addreminder flow
msgAddreminder(m, u, s, text, w) ==
  CASE s.step = 1 -> Advanced(m, u, [s EXCEPT !.temp.target = TargetOf(u, text)])
    [] s.step = 2 -> Advanced(m, u, s)
    [] s.step = 3 ->
         IF w = Null THEN Replied(m, u, "enter_date", FALSE)
         ELSE Advanced(m, u, [s EXCEPT !.temp.when = w])
    [] s.step = 4 ->
         IF Lower(text) \notin {"once", "daily"}
           THEN Replied(m, u, "enter_repeat", FALSE)
         ELSE LET m1 == reloadDb(m)
                  m2 == writeDbSync([m1 EXCEPT !.db.rems =
                           Append(@, Reminder(now, s.temp.target, s.temp.when, Lower(text)))])
              IN Replied(clearSession(logAuditAs(m2, "addreminder"), u),
                         u, "reminder_saved", FALSE)
    [] OTHER -> Passed(m)

\* lines 427-440: the amount of a partial payment
msgPayPartial(m, u, s, text) ==
  IF s.step # 1 THEN Passed(m)
  ELSE IF isNaN(text) THEN Replied(m, u, "enter_number", FALSE)
  ELSE LET m1 == reloadDb(m)
           m2 == writeDbSync([m1 EXCEPT !.db.payments =
                    Append(@, [staffId |-> s.temp.staffId, amount |-> Number(text), by |-> u])])
       IN Replied(clearSession(logAuditAs(m2, "pay_partial"), u),
                  u, "partial_recorded", FALSE)

\* lines 369-447: the message handler; every reply is `return ctx.reply(...)`,
\* which hands the pending send to the caller without awaiting it inside the
\* try block.  w is what dayjs made of the text.
message(m0, u, text, w) ==
  LET m == reloadDb(m0)
      s == getSession(m, u)
  IN CASE s.action = "additem" -> msgAdditem(m, u, s, text)
       [] s.action = "purchase" -> msgPurchase(m, u, s, text)
       [] s.action = "setusage" -> msgSetusage(m, u, s, text)
       [] s.action = "addreminder" -> msgAddreminder(m, u, s, text, w)
       [] s.action = "pay_partial" -> msgPayPartial(m, u, s, text)
       [] OTHER -> Passed(m)

(* src/unnamed/part_001: the temporary admin.  db.sessions[u] holds the     *)
(* flow (action, step, temp) and tempAdmin together; doc.tempAdmin is the  *)
(* set of users whose session has tempAdmin true.                          *)

\* part_001 lines 169-178
isAdminTemp(doc, u) == isAdmin(doc, u) \/ u \in doc.tempAdmin

\* variant: the session is replaced, as in src/index.js
setSessionMerge_replacing(m0, u, s, ta) ==
  LET m == reloadDb(m0)
  IN writeDbSync([m EXCEPT !.db.sessions[u] = s,
                           !.db.tempAdmin = IF ta THEN @ \cup {u} ELSE @ \ {u}])

\* part_001 lines 109-115: { ...existing, ...obj }; ta tells whether obj
\* carries tempAdmin: true
setSessionMerge(m0, u, s, ta) ==
  LET m == reloadDb(m0)
  IN writeDbSync([m EXCEPT !.db.sessions[u] = s,
                           !.db.tempAdmin = IF ta THEN @ \cup {u} ELSE @])

\* part_001 lines 121-129: action, step, tempState and temp are deleted
clearSessionKeep(m0, u) ==
  LET m == reloadDb(m0)
  IN writeDbSync([m EXCEPT !.db.sessions[u] = NoSession])

\* part_001 lines 293-296 (/admin), 299-311 (/logout), 314-317 (/cancel)
\* and 359-363 (/setusage); no command handler has a try block
TempCommands == {"admin", "logout", "cancel", "setusage"}
commandTemp(m0, u, c) ==
  LET m == reloadDb(m0)
      login == [getSession(m, u) EXCEPT !.action = "admin_login", !.step = 1]
      out == writeDbSync([m EXCEPT !.db.tempAdmin = @ \ {u}])
  IN CASE c = "admin" -> Replied(setSessionMerge(m0, u, login, FALSE), u, "enter_password", FALSE)
       [] c = "logout" ->
            IF u \notin m.db.tempAdmin THEN Replied(m, u, "not_temp", FALSE)
            ELSE IF u \in m.env.down THEN Replied(out, u, "logged_out", FALSE)
            ELSE Replied(logAuditAs(out, "temp_admin_revoked"), u, "logged_out", FALSE)
       [] c = "cancel" -> Replied(clearSessionKeep(m0, u), u, "cancelled", FALSE)
       [] OTHER ->
            IF ~isAdminTemp(m.db, u) THEN Replied(m, u, "notauth", FALSE)
            ELSE Replied(setSessionMerge(m0, u, Session("setusage", 1, NoTemp), FALSE),
                         u, "step1", FALSE)

\* a reply awaited inside the try block of the message handler, then logAudit
AuditedReply(m, u, reply, action) ==
  IF u \in m.env.down THEN Replied(m, u, reply, TRUE)
  ELSE Replied(logAuditAs(m, action), u, reply, TRUE)

\* part_001 lines 960-983 (admin_login) and 1193-1217 (setusage) of the
\* message handler; every reply is awaited inside the try block; the object
\* getSession returned carries tempAdmin when the user has it
messageTemp(m0, u, text) ==
  LET m == reloadDb(m0)
      s == getSession(m, u)
      ta == u \in m.db.tempAdmin
      m1 == clearSessionKeep(m, u)
      m2 == reloadDb(m)
      hit == ItemIdx(m2.db, s.temp.id)
      m3 == writeDbSync([m2 EXCEPT !.db.inv[FirstOf(hit)].dailyUsage = Number(text)])
  IN CASE s.action = "admin_login" ->
            IF text = AdminPassword
              THEN AuditedReply(writeDbSync([reloadDb(m1) EXCEPT !.db.tempAdmin = @ \cup {u}]),
                                u, "granted", "temp_admin_granted")
              ELSE AuditedReply(m1, u, "denied", "temp_admin_failed")
       [] s.action = "setusage" /\ s.step = 1 ->
            Replied(setSessionMerge(m, u, [s EXCEPT !.temp.id = text, !.step = 2], ta),
                    u, "step2", TRUE)
       [] s.action = "setusage" /\ s.step = 2 ->
            IF isNaN(text) THEN Replied(m, u, "enter_number", TRUE)
            ELSE IF hit = {} THEN Replied(clearSessionKeep(m2, u), u, "item_notfound", TRUE)
            ELSE Replied(clearSessionKeep(logAuditAs(m3, "setusage"), u), u, "usage_set", TRUE)
       [] OTHER -> Passed(m)

\* what the properties need to know about the last handler that ran
Last(kind, u, cmd, r) ==
  [NoLast EXCEPT !.kind = kind, !.user = u, !.cmd = cmd,
                 !.admin = (u \in Range(disk.partners) /\ disk.role[u] \in {"owner", "admin"}),
                 !.had = (disk.sessions[u] # NoSession),
                 !.reply = r.reply, !.escaped = r.escaped, !.same = (r.m.disk = disk),
                 !.wrote = (r.m.db # disk)]

\* the steps that ask for a number, a date-time, a repeat keyword, and the
\* texts that are none
NumberSteps ==
  {<<"additem", 3>>, <<"additem", 4>>, <<"purchase", 2>>, <<"setusage", 2>>, <<"pay_partial", 1>>}
Invalid(ss, text, w) ==
  \/ <<ss.action, ss.step>> \in NumberSteps /\ text \notin NumericTexts
  \/ <<ss.action, ss.step>> = <<"addreminder", 3>> /\ w = Null
  \/ <<ss.action, ss.step>> = <<"addreminder", 4>> /\ Lower(text) \notin {"once", "daily"}

MaxFlowOps == 2
Handled(last, r) ==
  /\ nops < MaxFlowOps
  /\ Apply(r.m)
  /\ nops' = nops + 1
  /\ hist' = [hist EXCEPT !.last = last]
  /\ UNCHANGED <<now, lastTick>>

Command(u, c) ==
  LET r == command(Machine, u, c) IN Handled(Last("command", u, c.c, r), r)
QuickAdd(u) ==
  LET r == quickadd(Machine, u) IN Handled(Last("quickadd", u, "additem", r), r)
QuickAdd000(u) ==
  LET r == quickadd000(Machine, u) IN Handled(Last("quickadd", u, "additem", r), r)
PayCallback(u, sid, a) ==
  LET r == payCallback(Machine, u, sid, a) IN Handled(Last("pay", u, a, r), r)
ClockIn(u) ==
  LET r == clockin(Machine, u) IN Handled(Last("command", u, "clockin", r), r)
ClockOut(u) ==
  LET r == clockout(Machine, u) IN Handled(Last("command", u, "clockout", r), r)
AttCallback(u, sid, a) ==
  LET r == attCallback(Machine, u, sid, a) IN Handled(Last("att", u, a, r), r)
MaxAdminOps == 4
HandledTemp(last, r, granted) ==
  /\ nops < MaxAdminOps
  /\ Apply(r.m)
  /\ nops' = nops + 1
  /\ hist' = [hist EXCEPT !.last = last, !.granted = granted]
  /\ UNCHANGED <<now, lastTick>>
CommandTemp(u, c) ==
  LET r == commandTemp(Machine, u, c)
  IN HandledTemp(Last("command", u, c, r), r,
                 IF c = "logout" THEN hist.granted \ {u} ELSE hist.granted)
MessageTemp(u, text) ==
  LET r == messageTemp(Machine, u, text)
  IN HandledTemp([Last("message", u, disk.sessions[u].action, r) EXCEPT !.arg = text], r,
                 IF disk.sessions[u].action = "admin_login" /\ text = AdminPassword
                   THEN hist.granted \cup {u} ELSE hist.granted)
Message(u, text) ==
  \E w \in DateParse(text) :
    LET r == message(Machine, u, text, w)
    IN Handled([Last("message", u, "", r) EXCEPT !.invalid = Invalid(disk.sessions[u], text, w)],
               r)

\* variant: without the test that a secret is configured
heartbeat_unsetSecretMatches(m0, id, secret) ==
  LET m == reloadDb(m0)
  IN IF secret # m0.env.secret
       THEN [m |-> m0, reply |-> "403", escaped |-> FALSE]
       ELSE [m |-> writeDbSync([m EXCEPT !.db.heartbeats[id] =
                                             [lastSeen |-> now, status |-> "ok"]]),
             reply |-> "OK", escaped |-> FALSE]
\* lines 451-464: GET /heartbeat/:id?secret=...
heartbeat(m0, id, secret) ==
  LET m == reloadDb(m0)
  IN IF m0.env.secret = "" \/ secret # m0.env.secret
       THEN [m |-> m0, reply |-> "403", escaped |-> FALSE]
       ELSE [m |-> writeDbSync([m EXCEPT !.db.heartbeats[id] =
                                             [lastSeen |-> now, status |-> "ok"]]),
             reply |-> "OK", escaped |-> FALSE]

Secrets == {"", "s", "x"}
Heartbeat(id, secret) ==
  LET r == heartbeat(Machine, id, secret)
  IN Handled([NoLast EXCEPT !.kind = "heartbeat", !.cmd = id, !.arg = secret, !.at = now,
                            !.reply = r.reply, !.same = (r.m.disk = disk),
                            !.wrote = (r.m.db # disk),
                            !.frame = ([r.m.disk EXCEPT !.heartbeats[id] = NoBeat]
                                         = [disk EXCEPT !.heartbeats[id] = NoBeat])], r)

----------------------------------------------------------------------------
(* Initial documents *)

Doc(f1, f2, pend, rems, inv) ==
  [partners |-> <<1, 2>>, tz |-> [p \in PartnerIds |-> 0],
   schedules |-> <<>>, lastSent |-> NoLastSent,
   staff |-> <<>>, attTime |-> DefaultAttTime, eodTime |-> DefaultEodTime, marks |-> NoMarks,
   role |-> [u \in UserIds |-> IF u \in PartnerIds THEN "owner" ELSE "none"],
   sessions |-> [u \in UserIds |-> NoSession], tempAdmin |-> {}, payments |-> <<>>, audit |-> <<>>,
   heartbeats |-> [d \in DeviceIds |-> NoBeat], thresholdMinutes |-> DefaultThreshold,
   f1 |-> f1, f2 |-> f2, pend |-> pend, rems |-> rems, inv |-> inv]

NoPending == [p \in PartnerIds |-> Absent]

\* entries left by sendVegConfirmForDate (line 481): pending, nextCheck null
PendChoices == [PartnerIds -> {Absent, PendingEntry(0)}]

RemChoice(id) ==
  {Reminder(id, tg, w, rp) : tg \in {All, 1}, w \in {1, 3}, rp \in {"once", "daily"}}
RemChoices ==
  {<<>>} \cup {<<r>> : r \in RemChoice(1)}
         \cup {<<r1, r2>> : r1 \in RemChoice(1), r2 \in RemChoice(2)}

\* items as the additem flow creates them (line 379)
ItemChoice == {Item(s, 1) : s \in {2, 4, 6}}
InvChoices ==
  {<<>>} \cup {<<a>> : a \in ItemChoice} \cup {<<a, b>> : a \in ItemChoice, b \in ItemChoice}

\* the schedules of db.json: the vegetable check and one other message, both
\* at 00:01; partner 2 lives in Asia/Kolkata or in Asia/Karachi, which is 30
\* minutes behind
\* a schedule as /setschedule stores it; intervalDays defaults to 1
Schedule(id, time) == [id |-> id, time |-> time, intervalDays |-> 1]
SchedChoices ==
  {<<Schedule("vegetables", 1)>>, <<Schedule("opening", 1)>>,
   <<Schedule("vegetables", 1), Schedule("opening", 1)>>,
   <<Schedule("opening", 1), Schedule("vegetables", 1)>>}
Karachi == 0 - Minutes(30)
TzChoices == {[p \in PartnerIds |-> 0], [p \in PartnerIds |-> IF p = 2 THEN Karachi ELSE 0]}
SchedDocs ==
  {[Doc(DefaultFollowups[1], DefaultFollowups[2], NoPending, <<>>, <<>>)
      EXCEPT !.schedules = sc, !.tz = tz] : sc \in SchedChoices, tz \in TzChoices}

VegDocs == {Doc(ShortFollowups[1], ShortFollowups[2], pd, <<>>, <<>>) : pd \in PendChoices}
RemDocs == {Doc(ShortFollowups[1], ShortFollowups[2], NoPending, rm, <<>>) : rm \in RemChoices}
\* the item {stock: 20, dailyUsage: 5, warnDays: 4, criticalDays: 2}
ScenarioItem == Item(20, 5)
InvDocs ==
  {Doc(ShortFollowups[1], ShortFollowups[2], NoPending, <<>>, iv) :
     iv \in InvChoices \cup {<<ScenarioItem>>}}
TimingDocs == {Doc(DefaultFollowups[1], DefaultFollowups[2], pd, <<>>, <<>>) : pd \in PendChoices}

InitEnv(docs, envs) ==
  /\ now = 0
  /\ lastTick = 0
  /\ nops = 0
  /\ disk \in docs
  /\ db = disk
  /\ tick = IdleTick
  /\ sent = NoSent
  /\ hist = InitHist(disk)
  /\ env \in envs
  /\ parked = <<>>

\* every send is delivered and every write succeeds
InitWith(docs) == InitEnv(docs, {NoFaults})

\* the confirmation state machine, ticks at any spacing
Init == InitWith(VegDocs)
Next ==
  \/ TickStart
  \/ TickResume
  \/ Advance
  \/ \E p \in PartnerIds, a \in {"yes", "no", "notyet"} : VegPress(p, a)
  \/ ReloadOnly
Spec == Init /\ [][Next]_vars

VegPressEarly(p, action) == now <= MaxPressTime /\ VegPress(p, action)

\* the confirmation state machine with the default settings and one tick
\* per period; buttons are pressed during the first periods
InitTiming == InitWith(TimingDocs)
NextTiming ==
  \/ TickStart
  \/ TickResume
  \/ AdvanceRegular
  \/ \E p \in PartnerIds, a \in {"yes", "no", "notyet"} : VegPressEarly(p, a)
SpecTiming == InitTiming /\ [][NextTiming]_vars

\* the confirmation state machine with short follow-up delays and one tick
\* per period, under the scheduling the program relies on: setInterval keeps
\* starting ticks, an awaited send completes, and time passes
MaxLiveTime == 12
AdvanceLive == RegularStep(MaxLiveTime)
InitLive == InitWith(VegDocs)
NextLive ==
  \/ TickStart
  \/ TickResume
  \/ AdvanceLive
  \/ \E p \in PartnerIds, a \in {"yes", "no", "notyet"} : VegPressEarly(p, a)
  \/ ReloadOnly
\* the step of TickStart as it shows on lastTick, which no other action changes
TickStarted == tick.pc = "idle" /\ lastTick < now /\ lastTick' = now
\* the step of TickResume as it shows on tick, which every resumption changes
TickResumed == tick.pc # "idle" /\ tick' = TickContinue(Machine).tick
SpecLive ==
  /\ InitLive /\ [][NextLive]_vars
  /\ WF_lastTick(TickStarted) /\ WF_tick(TickResumed) /\ WF_vars(AdvanceLive)

\* the schedules: one tick per period through the minutes in which the
\* schedules match in either timezone; a partner presses a button of a prompt
\* they have received, early or while a vegetable check is being sent
MaxSchedTime == 64
AdvanceSched == RegularStep(MaxSchedTime)
VegPressSched(p, action) ==
  /\ sent["vegcheck"][p][p] >= 1
  /\ now <= MaxPressTime \/ tick.pc = "veg_send"
  /\ VegPress(p, action)
InitSched == InitWith(SchedDocs)
NextSched ==
  \/ TickStart
  \/ TickResume
  \/ AdvanceSched
  \/ \E p \in PartnerIds, a \in {"yes", "no", "notyet"} : VegPressSched(p, a)
SpecSched == InitSched /\ [][NextSched]_vars

\* schedules with an interval of several days, over several days: one tick
\* per period during the first periods of a day, which hold the schedule's
\* minute; the ticks of the rest of the day find nothing to do
MaxDays == 2
DayWindow == 4
IntervalDocs ==
  {[Doc(DefaultFollowups[1], DefaultFollowups[2], NoPending, <<>>, <<>>)
      EXCEPT !.schedules = <<[Schedule(id, t) EXCEPT !.intervalDays = n]>>] :
     id \in SchedIds, t \in {0, 1}, n \in {1, 2}}
AdvanceInDay ==
  /\ now % DayUnits < DayWindow
  /\ RegularStep(MaxDays * DayUnits + DayWindow)
NextDay ==
  /\ now % DayUnits = DayWindow
  /\ now \div DayUnits < MaxDays
  /\ lastTick = now
  /\ tick.pc = "idle"
  /\ now' = now + DayUnits - DayWindow
  /\ UNCHANGED <<lastTick, nops, disk, db, tick, sent, hist, env, parked>>
InitInterval == InitWith(IntervalDocs)
NextInterval ==
  \/ TickStart
  \/ TickResume
  \/ AdvanceInDay
  \/ NextDay
SpecInterval == InitInterval /\ [][NextInterval]_vars

\* the tick when chats are unreachable: an entry of partner 1 as a press of
\* No or Not yet at time 0 leaves it, a reminder, an item at its warning
\* threshold; one partner's chat may be down; ticks may be late or missed
NotyetEntry == [status |-> "notyet", lastUpdated |-> 0, nextCheck |-> Minutes(ShortFollowups[1])]
NoEntry == [status |-> "no", lastUpdated |-> 0, nextCheck |-> Minutes(ShortFollowups[1])]
FailPend == {[p \in PartnerIds |-> IF p = 1 THEN e ELSE Absent] : e \in {Absent, NotyetEntry, NoEntry}}
FailRems == {<<>>, <<Reminder(1, All, 3, "once")>>, <<Reminder(1, 2, 3, "once")>>}
FailInv == {<<>>, <<Item(4, 1)>>}
FailDocs ==
  {Doc(ShortFollowups[1], ShortFollowups[2], pd, rm, iv) :
     pd \in FailPend, rm \in FailRems, iv \in FailInv}
FailEnvs == {[NoFaults EXCEPT !.down = d] : d \in {{}, {1}, {2}}}
MaxFailTime == 5
AdvanceFail ==
  /\ now < MaxFailTime
  /\ now' = now + 1
  /\ UNCHANGED <<lastTick, nops, disk, db, tick, sent, hist, env, parked>>
InitFail == InitEnv(FailDocs, FailEnvs)
NextFail ==
  \/ TickStart
  \/ TickResume
  \/ AdvanceFail
SpecFail == InitFail /\ [][NextFail]_vars

\* the confirmation state machine once both partners have answered: the
\* first has pressed Not yet or No, the second No, all at time 0
EscDocs ==
  {Doc(ShortFollowups[1], ShortFollowups[2], [p \in PartnerIds |-> IF p = 1 THEN e ELSE NoEntry],
       <<>>, <<>>) : e \in {NotyetEntry, NoEntry}}
InitEsc == InitWith(EscDocs)
SpecEsc == InitEsc /\ [][Next]_vars

\* the daily prompts: staff paid daily or monthly, the attendance prompt at
\* 00:01 or 00:02 and the payment check at 00:01 Asia/Kolkata, so that two
\* ticks fall inside each configured minute; one partner's chat may be down;
\* one tick per period
StaffChoices ==
  {<<Staff(1, "daily")>>, <<Staff(1, "daily"), Staff(2, "monthly")>>,
   <<Staff(1, "monthly"), Staff(2, "daily")>>}
DailyDocs ==
  {[Doc(ShortFollowups[1], ShortFollowups[2], NoPending, <<>>, <<>>)
      EXCEPT !.staff = st, !.attTime = at, !.eodTime = 1] :
     st \in StaffChoices, at \in {1, 2}}
DailyEnvs == {[NoFaults EXCEPT !.down = d] : d \in {{}, {1}}}
MaxDailyTime == 6
AdvanceDaily == RegularStep(MaxDailyTime)
InitDaily == InitEnv(DailyDocs, DailyEnvs)
NextDaily ==
  \/ TickStart
  \/ TickResume
  \/ AdvanceDaily
  \/ ReloadOnly
SpecDaily == InitDaily /\ [][NextDaily]_vars

\* the commands, buttons and flows: partner 1 is the owner, partner 2 has
\* role staff and is on the staff list, user 3 is no partner; item "a" may be
\* in stock; user 1 may be in the middle of a flow, as the earlier steps of
\* the flow leave them
FlowSessions ==
  {NoSession,
   Session("additem", 3, [NoTemp EXCEPT !.id = "a"]),
   Session("additem", 4, [NoTemp EXCEPT !.id = "a", !.num = 1]),
   Session("purchase", 3, [NoTemp EXCEPT !.id = "a", !.num = 2]),
   Session("setusage", 2, [NoTemp EXCEPT !.id = "a"]),
   Session("addreminder", 3, [NoTemp EXCEPT !.target = All]),
   Session("addreminder", 4, [NoTemp EXCEPT !.target = All, !.when = DateOfD1]),
   Session("pay_partial", 1, [NoTemp EXCEPT !.staffId = 2])}
FlowDocs ==
  {[Doc(ShortFollowups[1], ShortFollowups[2], NoPending, <<>>, iv)
      EXCEPT !.role[2] = "staff", !.staff = <<Staff(2, "daily")>>, !.sessions[1] = ss] :
     iv \in {<<>>, <<FlowItem("a", 2, 1)>>}, ss \in FlowSessions}
InitFlow == InitWith(FlowDocs)
NextFlow ==
  \/ \E u \in UserIds, c \in Commands : Command(u, c)
  \/ \E u \in UserIds : QuickAdd(u)
  \/ \E u \in UserIds, a \in {"yes", "partial", "no"} : PayCallback(u, 2, a)
  \/ \E u \in UserIds, text \in Texts : Message(u, text)
SpecFlow == InitFlow /\ [][NextFlow]_vars

\* the entry points of the flows: the commands and the Quick Add Item button
\* of src/index.js, and the Quick Add Item button of src/unnamed/part_000
NextEntry ==
  \/ \E u \in UserIds, c \in Commands : Command(u, c)
  \/ \E u \in UserIds : QuickAdd(u)
  \/ \E u \in UserIds : QuickAdd000(u)
SpecEntry == InitFlow /\ [][NextEntry]_vars

\* src/unnamed/part_001, the temporary admin: partner 1 is the owner,
\* partner 2 has role staff, user 3 is no partner; user 3 has no temporary
\* admin right, or has it, or has it and is at the last step of /setusage
TempTexts == {AdminPassword, "2", "a"}
TempDocs ==
  {[Doc(ShortFollowups[1], ShortFollowups[2], NoPending, <<>>, <<FlowItem("a", 2, 1)>>)
      EXCEPT !.role[2] = "staff", !.sessions[3] = c[1], !.tempAdmin = c[2]] :
     c \in {<<NoSession, {}>>, <<NoSession, {3}>>,
            <<Session("setusage", 2, [NoTemp EXCEPT !.id = "a"]), {3}>>}}
InitTemp == InitWith(TempDocs)
NextTemp ==
  \/ \E u \in UserIds, c \in TempCommands : CommandTemp(u, c)
  \/ \E u \in UserIds, text \in TempTexts : MessageTemp(u, text)
SpecTemp == InitTemp /\ [][NextTemp]_vars

\* attendance of one day: user 2 is a member of staff who has not clocked
\* in, has clocked in, or has clocked in and out at time 0
MaxClockTime == 2
AdvanceClock ==
  /\ now < MaxClockTime
  /\ now' = now + 1
  /\ UNCHANGED <<lastTick, nops, disk, db, tick, sent, hist, env, parked>>
ClockDocs ==
  {[Doc(ShortFollowups[1], ShortFollowups[2], NoPending, <<>>, <<>>)
      EXCEPT !.role[2] = "staff", !.staff = <<[Staff(2, "daily") EXCEPT !.att = a]>>] :
     a \in {NoAtt, [NoAtt EXCEPT !.made = TRUE, !.in = 0],
            [NoAtt EXCEPT !.made = TRUE, !.in = 0, !.out = 0]}}
InitClock == InitWith(ClockDocs)
NextClock ==
  \/ \E u \in UserIds : ClockIn(u)
  \/ \E u \in UserIds : ClockOut(u)
  \/ \E u \in UserIds, sid \in {2, 3}, a \in {"present", "absent", "leave"} :
       AttCallback(u, sid, a)
  \/ AdvanceClock
SpecClock == InitClock /\ [][NextClock]_vars

\* the same when user 1's chat cannot be reached, or db.json cannot be written
FlowEnvs == {[NoFaults EXCEPT !.down = {1}], [NoFaults EXCEPT !.diskOK = FALSE]}
InitFlowFail == InitEnv(FlowDocs, FlowEnvs)
SpecFlowFail == InitFlowFail /\ [][NextFlow]_vars

\* the heartbeat endpoint, with and without a configured secret; the clock
\* runs
BeatEnvs == {[NoFaults EXCEPT !.secret = x] : x \in {"", "s"}}
MaxBeatTime == 3
AdvanceBeat ==
  /\ now < MaxBeatTime
  /\ now' = now + 1
  /\ UNCHANGED <<lastTick, nops, disk, db, tick, sent, hist, env, parked>>
InitBeat ==
  InitEnv({Doc(ShortFollowups[1], ShortFollowups[2], NoPending, <<>>, <<>>)}, BeatEnvs)
NextBeat ==
  \/ \E id \in DeviceIds, secret \in Secrets : Heartbeat(id, secret)
  \/ AdvanceBeat
SpecBeat == InitBeat /\ [][NextBeat]_vars

\* the heartbeat alerts of src/unnamed/part_000: a threshold of one minute,
\* one tick per period, "pos" last seen at time 0 and "cam" never or at 0
ShortThreshold == 1
MaxAlertTime == 6
AlertTickStart ==
  /\ tick.pc = "idle"
  /\ lastTick < now
  /\ Apply(AlertTickBegin(Machine))
  /\ lastTick' = now
  /\ hist' = [hist EXCEPT !.obs = AlertTickBegin(Machine).obs]
  /\ UNCHANGED <<now, nops>>
AdvanceAlert == RegularStep(MaxAlertTime)
\* a device reports with the configured secret
AlertBeat(id) ==
  /\ nops < MaxFlowOps
  /\ Apply(heartbeat(Machine, id, env.secret).m)
  /\ nops' = nops + 1
  /\ hist' = [hist EXCEPT !.obs.offNow = @ \ {id},
                          !.obs.recovered = IF id \in hist.obs.offNow THEN @ \cup {id} ELSE @]
  /\ UNCHANGED <<now, lastTick>>
SeenAt0 == [lastSeen |-> 0, status |-> "ok"]
AlertDocs ==
  {[Doc(ShortFollowups[1], ShortFollowups[2], NoPending, <<>>, <<>>)
      EXCEPT !.thresholdMinutes = ShortThreshold,
             !.heartbeats = [d \in DeviceIds |-> IF d = "pos" THEN SeenAt0 ELSE c]] :
     c \in {NoBeat, SeenAt0}}
InitAlert == InitEnv(AlertDocs, {[NoFaults EXCEPT !.secret = "s"]})
NextAlert ==
  \/ AlertTickStart
  \/ TickResume
  \/ AdvanceAlert
  \/ \E id \in DeviceIds : AlertBeat(id)
SpecAlert == InitAlert /\ [][NextAlert]_vars

\* the reminder engine; the reminders fall due within the first periods, and
\* ticks may be late or missed
MaxRemTime == 4
AdvanceRem ==
  /\ now < MaxRemTime
  /\ now' = now + 1
  /\ UNCHANGED <<lastTick, nops, disk, db, tick, sent, hist, env, parked>>
InitRem == InitWith(RemDocs)
NextRem ==
  \/ TickStart
  \/ TickResume
  \/ AdvanceRem
  \/ ReloadOnly
  \/ \E id \in 1..2 : RemDone(id)
SpecRem == InitRem /\ [][NextRem]_vars

\* setInterval(async () => {...}, 30 * 1000) (lines 487, 664): the timer
\* fires every period whether or not the previous callback has returned, so
\* a tick starts while the previous one still awaits a send that lasts
\* longer than a period.  At most MaxOverlap later ticks are kept.
MaxOverlap == 1
MaxOverlapTime == 4

\* the references a suspended tick holds after another one has reloaded db
Stale(t) == [t EXCEPT !.pendLive = FALSE, !.remsLive = FALSE, !.itemsLive = FALSE]

\* the timer fires while a tick is in progress: the new tick runs from its
\* reloadDb() up to its first await
OverlapStart ==
  /\ tick.pc # "idle"
  /\ lastTick < now
  /\ Len(parked) < MaxOverlap
  /\ \E m \in {TickBegin([Machine EXCEPT !.tick = IdleTick])} :
        /\ disk' = m.disk
        /\ db' = m.db
        /\ sent' = m.sent
        /\ env' = m.env
        /\ tick' = Stale(tick)
        /\ parked' = IF m.tick.pc = "idle" THEN parked ELSE Append(parked, m.tick)
        /\ hist' = [hist EXCEPT !.obs = m.obs]
  /\ lastTick' = now
  /\ UNCHANGED <<now, nops>>

\* the send of the oldest tick in progress completes while a later one is
\* suspended
OverlapFirst ==
  /\ parked # <<>>
  /\ \E m \in {TickContinue([Machine EXCEPT !.obs.reloaded = FALSE])} :
     \E later \in {IF m.obs.reloaded THEN [i \in DOMAIN parked |-> Stale(parked[i])] ELSE parked} :
        /\ disk' = m.disk
        /\ db' = m.db
        /\ sent' = m.sent
        /\ env' = m.env
        /\ tick' = IF m.tick.pc = "idle" THEN Head(later) ELSE m.tick
        /\ parked' = IF m.tick.pc = "idle" THEN Tail(later) ELSE later
        /\ hist' = [hist EXCEPT !.obs = [m.obs EXCEPT !.reloaded = TRUE]]
  /\ UNCHANGED <<now, lastTick, nops>>

\* the send of a later tick completes first
OverlapLater ==
  /\ parked # <<>>
  /\ \E m \in {TickContinue([Machine EXCEPT !.tick = Head(parked), !.obs.reloaded = FALSE])} :
        /\ disk' = m.disk
        /\ db' = m.db
        /\ sent' = m.sent
        /\ env' = m.env
        /\ tick' = IF m.obs.reloaded THEN Stale(tick) ELSE tick
        /\ parked' = IF m.tick.pc = "idle" THEN Tail(parked) ELSE <<m.tick>> \o Tail(parked)
        /\ hist' = [hist EXCEPT !.obs = [m.obs EXCEPT !.reloaded = TRUE]]
  /\ UNCHANGED <<now, lastTick, nops>>

AdvanceOverlap ==
  /\ now < MaxOverlapTime
  /\ now' = now + 1
  /\ UNCHANGED <<lastTick, nops, disk, db, tick, sent, hist, env, parked>>

\* one reminder and no handler: a tick alone sends a reminder once
OverlapDocs ==
  {Doc(ShortFollowups[1], ShortFollowups[2], NoPending, <<r>>, <<>>) : r \in RemChoice(1)}
InitOverlap == InitWith(OverlapDocs)
NextOverlap ==
  \/ TickStart
  \/ (parked = <<>> /\ TickResume)
  \/ OverlapStart
  \/ OverlapFirst
  \/ OverlapLater
  \/ AdvanceOverlap
SpecOverlap == InitOverlap /\ [][NextOverlap]_vars

\* the inventory threshold monitor
InitInv == InitWith(InvDocs)
NextInv ==
  \/ TickStart
  \/ TickResume
  \/ AdvancePeriod
  \/ ReloadOnly
  \/ \E i \in 1..2, q \in PurchaseQty : Purchase(i, q)
  \/ \E i \in 1..2, u \in UsageValues : SetUsage(i, u)
SpecInv == InitInv /\ [][NextInv]_vars

TypeOK ==
  /\ now \in 0..MaxRegularTime
  /\ tick.pc \in {"idle", "veg_send", "sched_send", "veg_notyet", "veg_soft", "veg_urgent",
                  "rem_send", "att_send", "eod_send", "inv_low", "inv_crit"}

----------------------------------------------------------------------------
(* Properties of the confirmation state machine *)

VegWaiting == tick.pc \in {"veg_notyet", "veg_soft", "veg_urgent"}

\* C1: escalation fires at most once per (date, partner): after the tick that
\* broadcast URGENT for an entry the entry is gone from the persisted
\* pendingConfirmations, and a partner who pressed a button at most once is
\* escalated in at most one tick.
C1_EscalationOnce ==
  \A p \in PartnerIds :
    /\ (tick.pc = "idle" /\ p \in hist.esc) => disk.pend[p].status = "absent"
    /\ hist.press[p].n <= 1 => \A o \in PartnerIds : sent["urgent"][p][o] <= 1

\* C6 (as claimed): with followupMinutes1 = 30, followupMinutes2 = 60 and one
\* tick per period, a partner whose last press is No at time T gets exactly
\* one soft reminder, at the first tick after T+30m, and the URGENT
\* escalation is broadcast at the first tick after T+90m and not sooner.
FirstTickAfter(t) == t + 1

C6_TimingAsClaimed ==
  \A p \in PartnerIds :
    hist.press[p].kind = "no" =>
      LET T == hist.press[p].at
          softAt == FirstTickAfter(T + Minutes(disk.f1))
          urgentAt == FirstTickAfter(T + Minutes(disk.f1 + disk.f2))
      IN /\ sent["soft"][p][p] <= 1
         /\ (tick.pc = "veg_soft" /\ tick.pid = p) => now = softAt
         /\ (tick.pc = "idle" /\ lastTick >= softAt) => sent["soft"][p][p] = 1
         /\ \A o \in PartnerIds :
              /\ sent["urgent"][p][o] >= 1 => now >= urgentAt
              /\ (tick.pc = "idle" /\ lastTick >= urgentAt) => sent["urgent"][p][o] >= 1

\* C6 (amended): the same, but the URGENT escalation is first broadcast at
\* the first tick after (tick of the soft reminder + 60m), which is one tick
\* later than the first tick after T+90m, and not sooner.
C6_Timing ==
  \A p \in PartnerIds :
    hist.press[p].kind = "no" =>
      LET T == hist.press[p].at
          softAt == FirstTickAfter(T + Minutes(disk.f1))
          urgentAt == FirstTickAfter(softAt + Minutes(disk.f2))
      IN /\ sent["soft"][p][p] <= 1
         /\ (tick.pc = "veg_soft" /\ tick.pid = p) => now = softAt
         /\ (tick.pc = "idle" /\ lastTick >= softAt) => sent["soft"][p][p] = 1
         /\ \A o \in PartnerIds :
              /\ sent["urgent"][p][o] >= 1 => now >= urgentAt
              /\ (tick.pc = "idle" /\ lastTick >= urgentAt) => sent["urgent"][p][o] >= 1

C6_Witness ==
  /\ tick.pc = "veg_urgent"
  /\ hist.press[tick.pid].kind = "no"
  /\ sent["soft"][tick.pid][tick.pid] = 1
  /\ now = hist.press[tick.pid].at + Minutes(disk.f1 + disk.f2) + 2

C8_YesStopsFollowups ==
  \A p \in PartnerIds :
    hist.press[p].kind = "yes" =>
      /\ disk.pend[p].status \in {"confirmed", "absent"}
      /\ (VegWaiting /\ tick.pid = p) => p \in hist.during

C8_Witness ==
  \E p \in PartnerIds :
    /\ hist.press[p].kind = "yes" /\ hist.press[p].prev = "no"
    /\ p \notin hist.during
    /\ tick.pc = "idle" /\ lastTick > hist.press[p].at
    /\ sent["soft"][p][p] >= 1

\* C9: an entry that has status `confirmed` when a tick starts is absent from
\* the persisted pendingConfirmations when that tick ends, whatever other
\* entries are processed before it in the same tick.
C9_ConfirmedRemoved ==
  tick.pc = "idle" => \A p \in hist.confStart : disk.pend[p].status = "absent"

\* C10 (as claimed): an entry still `pending` whose nextCheck has elapsed is
\* handled like `notyet`: the tick re-sends the prompt to that partner and
\* sets nextCheck to now + followupMinutes1.
C10_PendingLikeNotyetAsClaimed ==
  tick.pc = "idle" =>
    \A p \in hist.pendStart :
      /\ sent["prompt"][p][p] >= 1
      /\ disk.pend[p].nextCheck >= lastTick + Minutes(disk.f1)

\* C10 (amended): for an entry still `pending` whose nextCheck has elapsed
\* the tick only sets nextCheck to now + followupMinutes1; it sends that
\* partner no prompt and no other follow-up.
C10_PendingOnlyRescheduled ==
  tick.pc = "idle" =>
    \A p \in hist.pendStart :
      /\ disk.pend[p].status = "pending"
      /\ disk.pend[p].nextCheck >= lastTick + Minutes(disk.f1)
      /\ disk.pend[p].nextCheck <= now + Minutes(disk.f1)
      /\ sent["prompt"][p][p] = 0 /\ sent["soft"][p][p] = 0
      /\ \A o \in PartnerIds : sent["urgent"][p][o] = 0

C10_Witness == tick.pc = "idle" /\ hist.pendStart # {}

\* C12: under regular ticks and successful sends every entry that enters
\* status `no` and gets no further button press is eventually escalated: the
\* URGENT message is eventually sent to every registered partner.
C12_NoEventuallyEscalated ==
  \A p \in PartnerIds :
    (hist.press[p].kind = "no")
      ~> (\/ hist.press[p].kind # "no"
          \/ \A o \in Range(disk.partners) : sent["urgent"][p][o] >= 1)

C12_Witness ==
  \E p \in PartnerIds :
    /\ hist.press[p].kind = "no" /\ hist.press[p].n = 1
    /\ \A o \in Range(disk.partners) : sent["urgent"][p][o] >= 1

----------------------------------------------------------------------------
(* Properties of the schedules *)

\* the partners the last vegetable check has examined and moved on from
VegHandled ==
  {q \in hist.obs.vegSeen : ~(tick.pc = "veg_send" /\ tick.vcur = q)}

\* C11 (as claimed): after the vegetable check is initiated for a date, every
\* partner who had no `confirmed` entry has been sent the prompt and has an
\* entry with status `pending` and nextCheck null; a partner with a
\* `confirmed` entry is sent nothing and the entry is not written.
C11_InitiationAsClaimed ==
  \A q \in VegHandled :
    IF hist.obs.vegExisting[q].status = "confirmed"
      THEN q \notin hist.obs.vegTo /\ q \notin hist.obs.vegWrote
      ELSE /\ q \in hist.obs.vegTo
           /\ hist.obs.vegAfter[q].status = "pending"
           /\ hist.obs.vegAfter[q].nextCheck = Null

\* C11 (amended): every partner who had no `confirmed` entry has been sent
\* the prompt; one who had no entry at all has an entry with status
\* `pending` and nextCheck null; an existing entry that is not `confirmed`
\* (pending, no, notyet) is not written by the check; a partner with a
\* `confirmed` entry is sent nothing and the entry is not written.
C11_Initiation ==
  \A q \in VegHandled :
    LET ex == hist.obs.vegExisting[q].status
    IN /\ ex = "confirmed" => q \notin hist.obs.vegTo /\ q \notin hist.obs.vegWrote
       /\ ex = "absent" => /\ q \in hist.obs.vegTo /\ q \in hist.obs.vegWrote
                           /\ hist.obs.vegAfter[q].status = "pending"
                           /\ hist.obs.vegAfter[q].nextCheck = Null
       /\ ex \in {"pending", "no", "notyet"} =>
             q \in hist.obs.vegTo /\ q \notin hist.obs.vegWrote

C11_Witness ==
  /\ \E q \in VegHandled : hist.obs.vegExisting[q].status = "no" /\ q \in hist.obs.vegTo
  /\ \E q \in VegHandled : hist.obs.vegExisting[q].status = "confirmed"

\* C20: for every (schedule, partner) the scheduled message is sent at most
\* once per calendar day of the partner's timezone: neither the second tick
\* of the matching minute nor any later tick of that day sends it again.
C20_OncePerLocalDay == hist.obs.dupl = {}

----------------------------------------------------------------------------
(* Properties of the reminder engine *)

RemIds(doc) == {doc.rems[i].id : i \in DOMAIN doc.rems}

\* C2: a `once` reminder is sent in exactly one tick: no recipient gets it
\* twice, and once the tick in which it fired has ended it is absent from
\* the persisted reminders; also when several reminders are due together.
C2_OnceFiresInOneTick ==
  \A id \in hist.once : \A t \in PartnerIds :
    /\ sent["reminder"][id][t] <= 1
    /\ (tick.pc = "idle" /\ sent["reminder"][id][t] >= 1) => id \notin RemIds(disk)

\* the reminders of the snapshot the last tick sent, as seen from outside
SentByTick(id) == \E t \in PartnerIds : hist.obs.remSent[id][t] >= 1
DiskReminder(id) == {i \in DOMAIN disk.rems : disk.rems[i].id = id}

\* C13: a `daily` reminder that fires with due time T stays in the reminder
\* set with `when` advanced to exactly T + 24h, computed from its previous
\* `when`, and is not sent again earlier than one minute before T + 24h;
\* also when several reminders are due in the same tick.  (Reminders whose
\* Done button was pressed are left out.)
C13_DailyAdvancesOneDay ==
  \A k \in DOMAIN hist.obs.remSnap :
    LET r == hist.obs.remSnap[k]
    IN (r.repeat = "daily" /\ r.id \notin hist.donePressed) =>
         /\ \A t \in PartnerIds :
              now + Minutes(1) <= r.when + DayUnits => sent["reminder"][r.id][t] <= 1
         /\ (tick.pc = "idle" /\ SentByTick(r.id)) =>
              /\ DiskReminder(r.id) # {}
              /\ \A i \in DiskReminder(r.id) : disk.rems[i].when = r.when + DayUnits

\* C14: a due reminder with target "all" is sent by the tick exactly once to
\* each registered partner, one with a single-user target exactly once to
\* that user; with two partners a tick at T sends 2 messages for a daily
\* reminder, advances `when` to T + 24h and keeps the reminder.
TargetsOf(r) == IF r.target = All THEN Range(disk.partners) ELSE {r.target}
C14_TargetsAndAdvance ==
  tick.pc = "idle" =>
    \A k \in DOMAIN hist.obs.remSnap :
      LET r == hist.obs.remSnap[k]
      IN SentByTick(r.id) =>
           /\ \A t \in PartnerIds :
                hist.obs.remSent[r.id][t] = IF t \in TargetsOf(r) THEN 1 ELSE 0
           /\ (r.repeat = "daily" /\ r.id \notin hist.donePressed) =>
                /\ DiskReminder(r.id) # {}
                /\ \A i \in DiskReminder(r.id) : disk.rems[i].when = r.when + DayUnits

C16_DueTestAsClaimed ==
  /\ tick.pc = "rem_send" => tick.rems[tick.ri].when <= tick.remNow + Minutes(1)
  /\ tick.pc = "idle" =>
       \A k \in DOMAIN hist.obs.remSnap :
         LET r == hist.obs.remSnap[k]
         IN (~r.done /\ r.when <= hist.obs.remAt + Minutes(1)) => SentByTick(r.id)

\* C16 (amended): a reminder that is not done is sent at a tick with time
\* `now` if and only if its `when` < now + 1 minute (a reminder due exactly
\* one minute after the tick waits for the next tick); it is never sent one
\* minute or more before its due time.
C16_DueTest ==
  /\ tick.pc = "rem_send" => tick.rems[tick.ri].when < tick.remNow + Minutes(1)
  /\ tick.pc = "idle" =>
       \A k \in DOMAIN hist.obs.remSnap :
         LET r == hist.obs.remSnap[k]
         IN /\ (~r.done /\ r.when < hist.obs.remAt + Minutes(1)) => SentByTick(r.id)
            /\ (~r.done /\ r.when >= hist.obs.remAt + Minutes(1)) => ~SentByTick(r.id)

C16_Witness ==
  /\ tick.pc = "idle"
  /\ \E k \in DOMAIN hist.obs.remSnap :
       /\ hist.obs.remSnap[k].when > hist.obs.remAt
       /\ SentByTick(hist.obs.remSnap[k].id)

----------------------------------------------------------------------------
(* Properties of the inventory threshold monitor *)

\* C3: for an item with dailyUsage > 0 whose daysLeft has stayed <= warnDays
\* all along, every partner receives the low-stock alert in at most one
\* tick, whatever the number of items crossing in the same tick.
C3_LowStockOncePerCrossing ==
  \A i \in DOMAIN disk.inv : \A p \in PartnerIds :
    i \notin hist.above => sent["low"][i][p] <= 1

\* C4: once the critical alert has been broadcast, later ticks and further
\* reductions of stock do not broadcast it again as long as daysLeft stays
\* <= criticalDays, also when low-stock and critical are raised in one tick.
C4_CriticalOnce ==
  \A i \in DOMAIN disk.inv : \A p \in PartnerIds :
    i \notin hist.aboveC => sent["critical"][i][p] <= 1

\* C5: flags are not one-way latches: when a tick has evaluated an item whose
\* daysLeft is finite and above warnDays (criticalDays), `_warned`
\* (`_critical`) is cleared in the persisted document, so that a later
\* breach alerts again.
C5_RecoveryClearsFlags ==
  tick.pc = "idle" =>
    \A i \in DOMAIN disk.inv :
      (i \notin hist.dirty /\ DaysFinite(disk.inv[i])) =>
        /\ ~DaysLeftLeq(disk.inv[i], WarnDays(disk.inv[i])) => ~disk.inv[i].warned
        /\ ~DaysLeftLeq(disk.inv[i], CriticalDays(disk.inv[i])) => ~disk.inv[i].critical

\* C17: the low-stock alert is broadcast when daysLeft = stock / dailyUsage
\* is <= warnDays, equality included, and the critical alert only when
\* daysLeft <= criticalDays: the tick broadcasts each alert for exactly the
\* items of its pass that meet the threshold with the flag unset; for stock
\* 20, dailyUsage 5, warnDays 4, criticalDays 2 it broadcasts the low-stock
\* alert and not the critical alert.
C17_Thresholds ==
  tick.pc = "idle" =>
    \A i \in DOMAIN hist.obs.invSnap :
      LET it == hist.obs.invSnap[i]
      IN /\ i \in hist.obs.lowSent <=>
              (it.dailyUsage > 0 /\ it.stock <= it.warnDays * it.dailyUsage /\ ~it.warned)
         /\ i \in hist.obs.critSent <=>
              (it.dailyUsage > 0 /\ it.stock <= it.criticalDays * it.dailyUsage /\ ~it.critical)
         /\ i \in hist.obs.lowSent => \A p \in Range(disk.partners) : sent["low"][i][p] >= 1
         /\ i \in hist.obs.critSent => \A p \in Range(disk.partners) : sent["critical"][i][p] >= 1
         /\ (it.stock = 20 /\ it.dailyUsage = 5 /\ ~it.warned) =>
              i \in hist.obs.lowSent /\ i \notin hist.obs.critSent

C17_Witness ==
  /\ tick.pc = "idle"
  /\ \E i \in DOMAIN hist.obs.invSnap :
       /\ hist.obs.invSnap[i].stock = 20 /\ hist.obs.invSnap[i].dailyUsage = 5
       /\ i \in hist.obs.lowSent /\ i \notin hist.obs.critSent
       /\ \A p \in PartnerIds : sent["low"][i][p] = 1 /\ sent["critical"][i][p] = 0

\* C18: an item whose dailyUsage is 0 never causes a low-stock or a critical
\* broadcast, whatever its stock and its `_warned` and `_critical` flags.
C18_ZeroUsageExempt ==
  \A i \in DOMAIN hist.obs.invSnap :
    hist.obs.invSnap[i].dailyUsage = 0 =>
      i \notin hist.obs.lowSent /\ i \notin hist.obs.critSent

C18_Witness ==
  /\ tick.pc = "idle"
  /\ \E i \in DOMAIN hist.obs.invSnap :
       /\ hist.obs.invSnap[i].dailyUsage = 0
       /\ hist.obs.invSnap[i].stock = 0
       /\ ~hist.obs.invSnap[i].warned /\ ~hist.obs.invSnap[i].critical

\* C19: alert flags are persisted immediately: once a tick has broadcast the
\* low-stock (critical) alert for an item and gone on, `_warned`
\* (`_critical`) of that item is true in the persisted document.
C19_FlagsPersisted ==
  /\ \A i \in hist.obs.lowDone : disk.inv[i].warned
  /\ \A i \in hist.obs.critDone : disk.inv[i].critical

----------------------------------------------------------------------------
(* Properties of the tick when sends fail *)

\* the partners a broadcast of this tick can reach
Reachable == {p \in Range(disk.partners) : p \notin env.down}

\* C22: in every broadcast to all partners (low-stock and critical alert,
\* URGENT escalation, reminder with target all, attendance prompt, payment
\* check) a send that fails for one partner does not keep the message from
\* the remaining partners: when the tick that started the broadcast has
\* ended, every partner whose chat can be reached has the message.
C22_BroadcastSurvivesFailure ==
  tick.pc = "idle" =>
    \A p \in Reachable :
      /\ \A i \in hist.obs.lowSent : sent["low"][i][p] >= 1
      /\ \A i \in hist.obs.critSent : sent["critical"][i][p] >= 1
      /\ \A q \in hist.esc : sent["urgent"][q][p] >= 1
      /\ \A i \in DOMAIN hist.obs.remSnap :
            LET r == hist.obs.remSnap[i]
            IN (r.target = All /\ \E t \in PartnerIds : hist.obs.remSent[r.id][t] >= 1)
                 => sent["reminder"][r.id][p] >= 1
      /\ \A st \in hist.obs.attSent : sent["attendance"][st][p] >= 1
      /\ \A st \in hist.obs.eodSent : sent["payment"][st][p] >= 1

\* C23: a send that fails in one step of a tick does not prevent the later
\* steps of that tick: every tick that has ended has gone through the
\* reminders and the inventory, and has sent every reminder that was due and
\* not done to the targets that can be reached.
C23_LaterStepsRun ==
  (tick.pc = "idle" /\ lastTick > 0) =>
    /\ hist.obs.steps = {3, 6}
    /\ \A i \in DOMAIN hist.obs.remSnap :
          LET r == hist.obs.remSnap[i]
          IN (~r.done /\ RemDue(r, hist.obs.remAt)) =>
               \A t \in Range(RemTargets(Machine, r)) \ env.down :
                 sent["reminder"][r.id][t] >= 1


----------------------------------------------------------------------------
(* Properties of the daily prompts (steps 4 and 5 of the tick) *)

\* the ticks of the configured minute of business date 0 have all run
AttMinutePassed == lastTick > Minutes(disk.attTime) + 1 /\ tick.pc = "idle"
EodMinutePassed == lastTick > Minutes(disk.eodTime) + 1 /\ tick.pc = "idle"

\* C21: for every business date at most one tick sends the attendance prompt
\* and at most one tick sends the end-of-day payment check, and nobody is
\* sent either of them twice for one staff member, although two ticks fall
\* in the configured minute.
C21_OncePerDate ==
  /\ \A d \in Days : hist.obs.attTicks[d] <= 1 /\ hist.obs.eodTicks[d] <= 1
  /\ \A s \in 1..2, p \in PartnerIds :
       sent["attendance"][s][p] <= 1 /\ sent["payment"][s][p] <= 1

\* both ticks of both configured minutes have run, and each prompt went out
\* exactly once
C21_Witness ==
  /\ AttMinutePassed /\ EodMinutePassed
  /\ hist.obs.attTicks[0] = 1 /\ hist.obs.eodTicks[0] = 1
  /\ sent["attendance"][1][2] = 1
  /\ \E s \in 1..2 : sent["payment"][s][2] = 1


----------------------------------------------------------------------------
(* Properties of the handlers: errors, authorization, sessions *)

\* C24: no exception raised by a failed send escapes the message handler or
\* the callback handler: the rejected reply is caught inside the handler.
C24_NothingEscapes ==
  hist.last.kind \in {"message", "quickadd", "pay"} => ~hist.last.escaped

\* C25: a privileged command, or the Quick Add Item button, from a user who
\* is not a partner with role owner or admin is answered "not authorized"
\* and leaves db.json as it was: partners, staff, inventory, payments and
\* the audit log are unchanged and no session is created.
C25_NonAdminRejected ==
  (/\ hist.last.kind \in {"command", "quickadd"}
   /\ hist.last.cmd \in Privileged
   /\ ~hist.last.admin)
    => /\ hist.last.reply = "notauth"
       /\ hist.last.same

\* partner 2, whose role is staff, has sent /setsalary after the owner had
\* changed the document, and user 3, no partner, is known too
C25_Witness ==
  /\ hist.last.kind = "command" /\ hist.last.cmd = "setsalary" /\ hist.last.user = 2
  /\ 2 \in Range(disk.partners) /\ disk.role[2] = "staff"
  /\ hist.last.reply = "notauth"
  /\ disk.audit # <<>>

\* C26: a text that fails the validation of the step the user's flow is at
\* (not a number where a quantity, usage, stock or amount is asked, not a
\* date-time, not once/daily) is answered with the request to enter it again
\* and leaves db.json, the user's session included, as it was.
C26_InvalidInputKeepsState ==
  (hist.last.kind = "message" /\ hist.last.invalid)
    => /\ hist.last.reply \in {"enter_number", "enter_date", "enter_repeat"}
       /\ hist.last.same

\* user 1, in the middle of a flow, has sent an unparsable date-time
C26_Witness ==
  /\ hist.last.kind = "message" /\ hist.last.invalid /\ hist.last.had
  /\ hist.last.reply = "enter_date"
  /\ disk.sessions[1].action = "addreminder" /\ disk.sessions[1].step = 3

\* C27: the user has no session after the last step of a flow, after an
\* aborted flow and after /cancel; a plain message of a user without a
\* session is passed on and changes nothing; and after a flow has been
\* started the user's session is step 1 of that flow, whatever it was.
FinalReplies ==
  {"item_added", "purchased", "usage_set", "reminder_saved", "partial_recorded",
   "item_exists", "item_notfound", "cancelled"}
C27_SessionLifecycle ==
  LET l == hist.last
  IN /\ l.reply \in FinalReplies => disk.sessions[l.user] = NoSession
     /\ (l.kind = "message" /\ ~l.had) => (l.reply = "next" /\ l.same)
     /\ l.reply = "step1" =>
          /\ disk.sessions[l.user].step = 1
          /\ disk.sessions[l.user].action =
               (IF l.kind = "pay" THEN "pay_partial" ELSE l.cmd)

\* user 1 has finished a flow (the audit trail has its entry) and their next
\* message found no session
C27_Witness ==
  /\ hist.last.kind = "message" /\ hist.last.user = 1 /\ ~hist.last.had
  /\ hist.last.reply = "next"
  /\ disk.audit # <<>>

\* C29: every inventory item has dailyUsage >= 0.
C29_UsageNonNegative ==
  \A i \in DOMAIN disk.inv : disk.inv[i].dailyUsage >= 0

----------------------------------------------------------------------------
(* Properties of the heartbeat endpoint *)

\* C28: a heartbeat request with the configured, non-empty secret is answered
\* OK and sets the device's lastSeen to the time of the request and its
\* status to ok, leaving the rest of the document alone; any other request
\* is answered 403 and leaves db.json as it was.
C28_HeartbeatSecret ==
  LET l == hist.last
  IN l.kind = "heartbeat" =>
       IF env.secret # "" /\ l.arg = env.secret
         THEN /\ l.reply = "OK"
              /\ l.frame
              /\ (now = l.at => disk.heartbeats[l.cmd] = [lastSeen |-> now, status |-> "ok"])
         ELSE l.reply = "403" /\ l.same

\* a device reported with the right secret at time 2, as the second request
C28_Witness ==
  /\ hist.last.kind = "heartbeat" /\ hist.last.reply = "OK" /\ hist.last.at = 2
  /\ disk.heartbeats["pos"] = [lastSeen |-> 2, status |-> "ok"]
  /\ disk.heartbeats["cam"] = NoBeat
  /\ nops = 2

----------------------------------------------------------------------------
(* Properties of the unlocked reload / mutate / write-back *)

\* C31: there is an interleaving of a tick suspended at a send and a handler
\* after which a change made by one of the two is missing from the persisted
\* document: when a handler has run while the tick awaited the send of a
\* reminder, the tick's change of that reminder (the advance of `when`, the
\* removal of a `once` reminder) is not in db.json once the tick has ended.
\* (Reminders whose Done button was pressed are left out.)
C31_LostUpdate ==
  tick.pc = "idle" =>
    \A k \in DOMAIN hist.obs.remSnap :
      LET r == hist.obs.remSnap[k]
      IN r.id \in hist.raced \ hist.donePressed =>
           /\ DiskReminder(r.id) # {}
           /\ \A i \in DiskReminder(r.id) : disk.rems[i] = r

C31_Witness ==
  /\ tick.pc = "idle"
  /\ \E id \in (hist.raced \cap hist.once) \ hist.donePressed :
       /\ SentByTick(id)
       /\ DiskReminder(id) # {}

\* no reminder is sent twice to a recipient
NoDoubleSend == \A t \in PartnerIds : sent["reminder"][1][t] <= 1

\* C32: scheduled work is a single logical thread: a tick does not start
\* while the previous tick is still suspended at a send, so at most one tick
\* is in progress at any time, and no message is sent twice because two
\* ticks evaluated the same due condition.
C32_SingleThread ==
  /\ parked = <<>>
  /\ NoDoubleSend

\* C33: the URGENT escalation for a (date, partner) is broadcast only if, at
\* the time of the broadcast, the persisted entry has status `no` and at
\* least followupMinutes2 minutes have passed since its lastUpdated; never
\* for an entry in status `pending` or `notyet`, nor for a partner whose Yes
\* was already recorded, also when the press is handled while the tick is
\* suspended at a send for another entry.  (hist.esc: the partner has not
\* pressed a button since the tick sent the URGENT message.)
C33_EscalationOnlyForNo ==
  (tick.pc = "veg_urgent" /\ tick.pid \in hist.esc) =>
     /\ disk.pend[tick.pid].status = "no"
     /\ minutesSince(disk.pend[tick.pid].lastUpdated) >= disk.f2

\* C34: a schedule with intervalDays = n is sent to a partner only if it was
\* never sent to that partner or at least n calendar days have passed since
\* the last send to that partner: at most once per n-day period per
\* (schedule, partner).
C34_IntervalDays == hist.obs.early = {}

----------------------------------------------------------------------------
(* Properties of the heartbeat alerts (src/unnamed/part_000) *)

\* C35: the heartbeat-down alert is latched: for a device whose last
\* heartbeat is at least thresholdMinutes old, the OFFLINE broadcast is sent
\* in one tick only and is not repeated by later ticks until a new
\* heartbeat of that device has been received.
C35_OfflineLatched == hist.obs.offRepeat = {}

\* C36: after the OFFLINE alert has been sent for a device, when a heartbeat
\* of that device is received again, a following tick broadcasts the
\* Internet Restored message to all partners: here, once a tick that began
\* after the heartbeat, within the threshold, has ended.
C36_RestoredAfterRecovery ==
  \A d \in hist.obs.recovered :
    (/\ tick.pc = "idle"
     /\ lastTick > disk.heartbeats[d].lastSeen
     /\ lastTick - disk.heartbeats[d].lastSeen < Minutes(disk.thresholdMinutes)) =>
       \A p \in PartnerIds : sent["restored"][DeviceNo(d)][p] >= 1

----------------------------------------------------------------------------
(* Properties of the attendance record *)

AttOf(doc, id) ==
  IF StaffIdx(doc, id) = {} THEN NoAtt ELSE doc.staff[FirstOf(StaffIdx(doc, id))].att
\* the document without the audit trail and the attendance status
WithoutStatus(doc) ==
  [doc EXCEPT !.audit = <<>>,
              !.staff = [i \in DOMAIN @ |-> [@[i] EXCEPT !.att.status = "none",
                                                         !.att.made = TRUE]]]
Rejections == {"already_in", "not_in", "already_out", "not_registered"}

AttendanceStep ==
  /\ \A id \in UserIds :
       /\ AttOf(disk, id).in # Null => AttOf(disk', id).in = AttOf(disk, id).in
       /\ AttOf(disk, id).out # Null => AttOf(disk', id).out = AttOf(disk, id).out
  /\ (nops' # nops /\ hist'.last.reply \in Rejections) => disk' = disk
  /\ (nops' # nops /\ hist'.last.kind = "att") => WithoutStatus(disk') = WithoutStatus(disk)

\* C37: for every staff member and day, the attendance record has a
\* clock-out time only if it has a clock-in time, and each of the two is set
\* at most once: a second /clockin, a second /clockout and a /clockout
\* without clock-in are rejected and leave the persisted record unchanged;
\* attendance marking by button changes only `status`.
C37_Attendance ==
  /\ [](\A id \in UserIds : AttOf(disk, id).out # Null => AttOf(disk, id).in # Null)
  /\ [][AttendanceStep]_vars

\* user 2, clocked in at time 0, has clocked out at time 1, and a second
\* /clockout has been rejected
C37_Witness ==
  /\ AttOf(disk, 2) = [made |-> TRUE, in |-> 0, out |-> 1, status |-> "none"]
  /\ hist.last.cmd = "clockout"
  /\ hist.last.reply = "already_out"

----------------------------------------------------------------------------
(* Properties of the temporary admin (src/unnamed/part_001) *)

\* the handler that has just run was u's message in an admin_login session
LoginAnswer(u) ==
  /\ nops' # nops
  /\ hist'.last.kind = "message"
  /\ hist'.last.user = u
  /\ hist'.last.cmd = "admin_login"
\* the handler that has just run was /cancel, the start of a flow, or the
\* last step of a flow
FlowOrCancel ==
  /\ nops' # nops
  /\ \/ hist'.last.kind = "command" /\ hist'.last.cmd \in {"cancel", "setusage"}
     \/ hist'.last.kind = "message" /\ hist'.last.reply \in {"usage_set", "item_notfound"}

TempAdminStep ==
  /\ \A u \in UserIds :
       (LoginAnswer(u) /\ hist'.last.arg # AdminPassword)
         => /\ disk'.tempAdmin = disk.tempAdmin
            /\ disk'.sessions[u].action = "none"
  /\ FlowOrCancel => disk'.tempAdmin = disk.tempAdmin

\* C38: in the variant with temporary admin, a user who is not a partner
\* with role owner or admin passes the admin check only between entering
\* the correct password in an admin_login session and that user's next
\* /logout: a wrong password grants nothing and ends the login session, and
\* /cancel, starting a flow and completing a flow neither grant nor revoke
\* the temporary admin right.
C38_TempAdmin ==
  /\ [](\A u \in UserIds :
          (~isAdmin(disk, u) /\ isAdminTemp(disk, u)) => u \in hist.granted)
  /\ [][TempAdminStep]_vars

\* user 3, no partner, has the temporary admin right and has just started
\* the /setusage flow
C38_Witness ==
  /\ 3 \in disk.tempAdmin
  /\ 3 \notin Range(disk.partners)
  /\ hist.last.user = 3
  /\ hist.last.cmd = "setusage"
  /\ hist.last.reply = "step1"

----------------------------------------------------------------------------
(* Properties of the entry points of the inventory flows *)

InventoryFlows == {"additem", "purchase", "setusage"}

\* C39: an additem, purchase or setusage session is created only for a user
\* who passes the admin check at that moment, through every entry point
\* (commands and start/menu buttons).
C39_FlowsOnlyForAdmins ==
  (hist.last.reply = "step1" /\ hist.last.cmd \in InventoryFlows
     /\ disk.sessions[hist.last.user].action = hist.last.cmd)
    => hist.last.admin
====
